---- MODULE Spec2Model ----
(***************************************************************************)
(* A model of heal-plz's core: the alert engine (AlertService and the      *)
(* alert endpoints), the incident lifecycle, the background task manager,  *)
(* the event bus and the healing pipeline.                                 *)
(*                                                                         *)
(* Rows of a table are the elements of a sequence; a row's id is its       *)
(* index, so ids are 1, 2, 3, ... in creation order, and None (0) is the   *)
(* NULL of an Optional column.                                             *)
(***************************************************************************)
EXTENDS Integers, Sequences, FiniteSets, TLC

\* ------------------------------------------------------------------ bounds
MaxEvents == 11     \* process_event calls of a run of SpecThresholds
MaxSeries == 2      \* alerts of a run of SpecThresholds
MaxRun == 4         \* process_event calls of a run of SpecAlert
MaxAlerts == 2      \* alerts of a run of SpecAlert
MaxOps == 2         \* alert endpoint calls of a run of SpecAlert
MaxTime == 1        \* clock readings after the first
MaxTransitions == 8 \* incident lifecycle calls of a run of SpecIncident
MaxCalls == 4       \* calls made from outside in a run of SpecBus
MaxTaskCalls == 5   \* calls made from outside in a run of SpecTasks
MaxUnits == 4       \* tasks submitted in a run
MaxConcurrent == 2  \* the max_concurrent the task manager is built with
MaxIncidents == 2   \* process_event calls of a run of SpecPipeline
MaxTriggers == 1    \* calls made from outside in a run of SpecPipeline
MaxFeeds == 6        \* analyzer calls of a run of SpecAnalyzer
MaxClassified == 3   \* analyzer calls of a run of SpecClassifier
MaxOutputCalls == 4  \* analyzer calls of a run of SpecOutput
MaxOutputLines == 3  \* lines of a text given to analyze_output
BlockLines == 47    \* lines of the block a run of SpecAnalyzer may start inside
MaxHooks == 3       \* webhook requests of a run of SpecWebhook
MaxNormalized == 2  \* reports normalized in a run of SpecNormalizer
MaxTextLines == 3   \* lines of a text given to the stacktrace parser
MaxRaces == 4       \* process_event calls in a run of SpecRace
MaxLinkedEvents == 3 \* process_event calls of a run of SpecLinked, the escalating one included
MaxFlowCalls == 3   \* submit and cancel calls made from outside in a run of SpecFlow

\* NULL of an Optional column / Python's None
None == 0

Repositories == {"repo-a", "repo-b"}
Fingerprints == {"fp-x", "fp-y"}
Handlers == {"h1", "h2"}
JobIds == {<<"job", 1>>, <<"job", 2>>}

\* ------------------------------------------------------------------ enums
EventSeverity == {"critical", "error", "warning", "info"}
AlertSeverity == {"critical", "high", "medium", "low", "info"}
AlertStatus == {"active", "acknowledged", "suppressed", "escalated", "resolved"}
IncidentPriority == {"p0", "p1", "p2", "p3", "p4"}

OPEN == "open"
INVESTIGATING == "investigating"
ROOT_CAUSE_IDENTIFIED == "root_cause_identified"
FIX_IN_PROGRESS == "fix_in_progress"
FIX_PENDING_REVIEW == "fix_pending_review"
FIX_MERGED == "fix_merged"
VERIFYING == "verifying"
RESOLVED == "resolved"
CLOSED == "closed"
WONT_FIX == "wont_fix"

IncidentStatus ==
    {OPEN, INVESTIGATING, ROOT_CAUSE_IDENTIFIED, FIX_IN_PROGRESS, FIX_PENDING_REVIEW,
     FIX_MERGED, VERIFYING, RESOLVED, CLOSED, WONT_FIX}

INCIDENT_CREATED == "incident_created"
INCIDENT_UPDATED == "incident_updated"
INVESTIGATION_COMPLETED == "investigation_completed"
RCA_COMPLETED == "rca_completed"
FIX_GENERATED == "fix_generated"

\* ------------------------------------------------------------------ state
VARIABLES
    alerts,          \* the alerts table
    incidents,       \* the incidents table
    monitor_events,  \* per alert: how many of its monitor events carry an incident link
    timeline,        \* the timeline_entries table
    queue,           \* EventBus._queue
    now,             \* datetime.utcnow()
    nEvents,         \* process_event calls made so far
    nOps,            \* alert endpoint calls made so far
    lastCall,        \* the latest process_event call: its key and what it returned
    nTransitions,    \* incident lifecycle calls made so far
    lastTransition,  \* the latest lifecycle call: what it asked for and how it ended
    published,       \* every event ever put on the bus, in publish order
    handlers,        \* EventBus._handlers
    running,         \* EventBus._running
    loop,            \* where EventBus.start stands
    calls,           \* every handler invocation the loop has made, in order
    dispatched,      \* per event the loop has finished: the handlers subscribed then
    units,           \* every asyncio.Task that submit created
    tasks,           \* BackgroundTaskManager._tasks
    semaphore,       \* the value of BackgroundTaskManager._semaphore
    investigations,  \* the investigations table
    root_causes,     \* the root_causes table
    nCalls,          \* bus, task manager and trigger calls made from outside
    buffer,          \* OutputAnalyzer._buffer
    in_error_block,  \* OutputAnalyzer._in_error_block
    blank_line_count,\* OutputAnalyzer._blank_line_count
    lastReturn,      \* what the latest analyzer call returned: <<>> for None
    lastOp,          \* the latest analyzer call
    discarded,       \* the lines reset() dropped that were not fed again since
    fed_block,       \* the lines fed into the pending block, as they were fed
    nFeeds,          \* analyzer calls made so far
    repositories,    \* the repositories table, by owner and name
    monitors,        \* the repositories that have a GitHub Actions monitor
    response,        \* what the latest webhook request answered
    normalized,      \* the NormalizedEvents the normalizer built for reports
    nHooks,          \* webhook requests made so far
    parsed_text,     \* the text the parser was last given, as its lines
    parse_result,    \* the ParsedStacktrace the parser last returned
    sessions,        \* per request in flight: where its process_event call stands
    uncommitted      \* the rows written by a transaction that has not committed yet

alertVars == <<alerts, monitor_events, nEvents, nOps, lastCall>>
dbVars == <<incidents, timeline, queue, published, now>>
lifeVars == <<nTransitions, lastTransition>>

busVars == <<handlers, running, loop, calls, dispatched>>
taskVars == <<units, tasks, semaphore>>
pipeVars == <<busVars, taskVars, investigations, root_causes, nCalls>>

analyzerVars == <<buffer, in_error_block, blank_line_count, lastReturn, lastOp,
                  discarded, fed_block, nFeeds>>
webhookVars == <<repositories, monitors, response, normalized, nHooks>>
parserVars == <<parsed_text, parse_result>>
raceVars == <<sessions, uncommitted>>
engineVars == <<analyzerVars, webhookVars, parserVars, raceVars>>

vars == <<alertVars, dbVars, lifeVars, pipeVars, engineVars>>

\* ------------------------------------------------------------ alert engine
EVENT_TO_ALERT_SEVERITY(sev) ==
    CASE sev = "critical" -> "critical"
      [] sev = "error" -> "high"
      [] sev = "warning" -> "medium"
      [] sev = "info" -> "info"
      [] OTHER -> "medium"

ALERT_TO_INCIDENT_PRIORITY(sev) ==
    CASE sev = "critical" -> "p0"
      [] sev = "high" -> "p1"
      [] sev = "medium" -> "p2"
      [] sev = "low" -> "p3"
      [] sev = "info" -> "p4"
      [] OTHER -> "p2"

ESCALATION_RULES(sev) ==
    CASE sev = "critical" -> 1
      [] sev = "high" -> 1
      [] sev = "medium" -> 3
      [] sev = "low" -> 5
      [] sev = "info" -> 10
      [] OTHER -> 3

\* The ids of the alerts the lookup's WHERE clause selects.
find_existing_alert(repository_id, fingerprint) ==
    {i \in DOMAIN alerts :
        /\ alerts[i].repository_id = repository_id
        /\ alerts[i].fingerprint = fingerprint
        /\ alerts[i].status \in {"active", "acknowledged", "escalated", "suppressed"}}

\* touched, resolved_once: history only, whether an alert endpoint has ever written
\* the row, and whether the row has ever been set to Resolved.
create_alert(repository_id, fingerprint, event_severity) ==
    LET severity == EVENT_TO_ALERT_SEVERITY(event_severity) IN
    [repository_id |-> repository_id,
     fingerprint |-> fingerprint,
     severity |-> severity,
     status |-> "active",
     occurrence_count |-> 1,
     escalation_threshold |-> ESCALATION_RULES(severity),
     auto_escalate |-> TRUE,
     suppressed_until |-> None,
     incident_id |-> None,
     touched |-> FALSE,
     resolved_once |-> FALSE]

\* An update that takes the threshold of the most severe event.
update_alert_critical(alert) ==
    [alert EXCEPT !.occurrence_count = @ + 1,
                  !.severity = EVENT_TO_ALERT_SEVERITY("critical"),
                  !.escalation_threshold = ESCALATION_RULES(EVENT_TO_ALERT_SEVERITY("critical"))]

update_alert(alert) ==
    [alert EXCEPT !.occurrence_count = @ + 1]

\* should_escalate with the threshold test off by one.
should_escalate_late(alert) ==
    IF alert.status = "suppressed" THEN FALSE
    ELSE IF alert.suppressed_until # None /\ alert.suppressed_until > now THEN FALSE
    ELSE IF ~alert.auto_escalate THEN FALSE
    ELSE alert.occurrence_count > alert.escalation_threshold

\* should_escalate holding back an Acknowledged alert as well.
should_escalate_unacknowledged(alert) ==
    IF alert.status \in {"suppressed", "acknowledged"} THEN FALSE
    ELSE IF alert.suppressed_until # None /\ alert.suppressed_until > now THEN FALSE
    ELSE IF ~alert.auto_escalate THEN FALSE
    ELSE alert.occurrence_count >= alert.escalation_threshold

should_escalate(alert) ==
    IF alert.status = "suppressed" THEN FALSE
    ELSE IF alert.suppressed_until # None /\ alert.suppressed_until > now THEN FALSE
    ELSE IF ~alert.auto_escalate THEN FALSE
    ELSE alert.occurrence_count >= alert.escalation_threshold

\* process_event escalating whenever should_escalate says so, linked or not.
must_escalate_again(alert) ==
    should_escalate(alert)

\* process_event's test before escalating.
must_escalate(alert) ==
    should_escalate(alert) /\ alert.incident_id = None

\* Numbering that counts the incidents of every repository together.
get_next_incident_number_global(repository_id) == Len(incidents) + 1

get_next_incident_number(repository_id) ==
    LET nums == {incidents[i].incident_number :
                    i \in {j \in DOMAIN incidents : incidents[j].repository_id = repository_id}}
    IN  (IF nums = {} THEN 0 ELSE CHOOSE n \in nums : \A m \in nums : m <= n) + 1

\* An incident that counts only the event that escalated.
new_incident_one_event(alert, alert_id) ==
    [repository_id |-> alert.repository_id,
     incident_number |-> get_next_incident_number(alert.repository_id),
     status |-> OPEN,
     priority |-> ALERT_TO_INCIDENT_PRIORITY(alert.severity),
     event_count |-> 1,
     resolved_at |-> None,
     alert_id |-> alert_id]

new_incident(alert, alert_id) ==
    [repository_id |-> alert.repository_id,
     incident_number |-> get_next_incident_number(alert.repository_id),
     status |-> OPEN,
     priority |-> ALERT_TO_INCIDENT_PRIORITY(alert.severity),
     event_count |-> alert.occurrence_count,
     resolved_at |-> None,
     alert_id |-> alert_id]

\* The events escalation publishes for the incident it created.
escalation_events(incident_id, alert_id) ==
    <<[type |-> INCIDENT_CREATED, incident_id |-> incident_id, alert_id |-> alert_id]>>

\* AlertService.process_event inside a request whose transaction commits; ingested
\* are the events the request has put on the bus before the call. A lookup matching
\* several rows makes scalar_one_or_none raise; the request is rolled back and nothing
\* is written, but what was put on the bus stays there.
process_event(repository_id, fingerprint, event_severity, ingested) ==
    LET found == find_existing_alert(repository_id, fingerprint) IN
    IF Cardinality(found) > 1
    THEN /\ lastCall' = [repository_id |-> repository_id, fingerprint |-> fingerprint,
                         result |-> "raised", alert_id |-> None]
         /\ queue' = queue \o ingested
         /\ published' = published \o ingested
         /\ UNCHANGED <<alerts, incidents, monitor_events, timeline>>
    ELSE LET id == IF found = {} THEN Len(alerts) + 1 ELSE CHOOSE i \in found : TRUE
             alert == IF found = {}
                      THEN create_alert(repository_id, fingerprint, event_severity)
                      ELSE update_alert(alerts[id])
             evs == IF found = {} THEN [linked |-> 0, unlinked |-> 1]
                    ELSE [monitor_events[id] EXCEPT !.unlinked = @ + 1]
             put(seq, x) == IF found = {} THEN Append(seq, x) ELSE [seq EXCEPT ![id] = x]
             incident_id == Len(incidents) + 1
         IN  /\ lastCall' = [repository_id |-> repository_id, fingerprint |-> fingerprint,
                             result |-> "returned", alert_id |-> id]
             /\ IF must_escalate(alert)
                THEN /\ alerts' = put(alerts, [alert EXCEPT !.status = "escalated",
                                                            !.incident_id = incident_id])
                     /\ incidents' = Append(incidents, new_incident(alert, id))
                     /\ monitor_events' = put(monitor_events,
                            [linked |-> evs.linked + evs.unlinked, unlinked |-> 0])
                     /\ timeline' = Append(timeline,
                            [incident_id |-> incident_id, event_type |-> "incident_created",
                             old_status |-> "none", new_status |-> "none"])
                     /\ queue' = queue \o ingested \o escalation_events(incident_id, id)
                     /\ published' = published \o ingested
                                         \o escalation_events(incident_id, id)
                ELSE /\ alerts' = put(alerts, alert)
                     /\ monitor_events' = put(monitor_events, evs)
                     /\ queue' = queue \o ingested
                     /\ published' = published \o ingested
                     /\ UNCHANGED <<incidents, timeline>>

\* process_event as called for a monitor event that is already ingested.
ProcessEvent(repository_id, fingerprint, event_severity, maxCalls, maxRows) ==
    /\ nEvents < maxCalls
    /\ find_existing_alert(repository_id, fingerprint) = {} => Len(alerts) < maxRows
    /\ nEvents' = nEvents + 1
    /\ process_event(repository_id, fingerprint, event_severity, <<>>)
    /\ UNCHANGED <<now, nOps, lifeVars, engineVars, pipeVars>>

\* The three status endpoints: load the alert by id, write the status, commit.
set_alert_status(alert_id, status) ==
    /\ nOps < MaxOps
    /\ alert_id \in DOMAIN alerts
    /\ nOps' = nOps + 1
    /\ alerts' = [alerts EXCEPT ![alert_id].status = status, ![alert_id].touched = TRUE,
                                ![alert_id].resolved_once = @ \/ status = "resolved"]
    /\ UNCHANGED <<dbVars, monitor_events, nEvents, lastCall, lifeVars, engineVars, pipeVars>>

acknowledge_alert(alert_id) == set_alert_status(alert_id, "acknowledged")

suppress_alert(alert_id) == set_alert_status(alert_id, "suppressed")

resolve_alert(alert_id) == set_alert_status(alert_id, "resolved")

\* PATCH /alerts/{id}: the body's fields (model_dump(exclude_unset=True)) are written,
\* the others are left alone. The bodies drawn set one field each; a body that sets
\* both has the effect of two such calls.
AlertUpdate ==
    {d \in [fields : {{"auto_escalate"}, {"suppressed_until"}},
            auto_escalate : BOOLEAN,
            suppressed_until : {None} \cup (2..(MaxTime + 1))] :
        /\ "auto_escalate" \notin d.fields => d.auto_escalate
        /\ "suppressed_until" \notin d.fields => d.suppressed_until = None}

update_alert_endpoint(alert_id, data) ==
    /\ nOps < MaxOps
    /\ alert_id \in DOMAIN alerts
    /\ nOps' = nOps + 1
    /\ alerts' = [alerts EXCEPT
            ![alert_id].auto_escalate =
                IF "auto_escalate" \in data.fields THEN data.auto_escalate ELSE @,
            ![alert_id].suppressed_until =
                IF "suppressed_until" \in data.fields THEN data.suppressed_until ELSE @,
            ![alert_id].touched = TRUE]
    /\ UNCHANGED <<dbVars, monitor_events, nEvents, lastCall, lifeVars, engineVars, pipeVars>>

\* Time passes.
Tick ==
    /\ now < MaxTime + 1
    /\ now' = now + 1
    /\ UNCHANGED <<alertVars, incidents, timeline, queue, published, lifeVars, engineVars, pipeVars>>

\* ------------------------------------------------ concurrent process_event calls
\* Two requests, each with its own AsyncSession (get_db), run process_event and
\* interleave at its awaits. A transaction sees the committed rows and its own; an
\* UPDATE of a row waits for the transaction that has written the row to end.
Sessions == {"s1", "s2"}

Idle ==
    [pc |-> "idle", repository_id |-> "none", fingerprint |-> "none",
     event_severity |-> "info", created |-> FALSE, alert_id |-> None,
     alert |-> create_alert("none", "none", "info"), incident_number |-> None,
     op |-> "none", incident_id |-> None, target |-> "none"]

NoSessions ==
    /\ sessions = [s \in Sessions |-> Idle]
    /\ uncommitted = {}

\* The rows of a table a session's queries see.
visible(session, table, rows) ==
    {i \in rows : \A other \in Sessions \ {session} : <<table, i, other>> \notin uncommitted}

\* The rows of a table that are committed.
committed(table, rows) ==
    {i \in rows : \A session \in Sessions : <<table, i, session>> \notin uncommitted}

\* A request reaches process_event with an ingested monitor event.
BeginProcessEvent(session, repository_id, fingerprint, event_severity, maxCalls) ==
    /\ sessions[session].pc = "idle"
    /\ nEvents < maxCalls
    /\ nEvents' = nEvents + 1
    /\ sessions' = [sessions EXCEPT ![session] =
            [Idle EXCEPT !.pc = "find_existing_alert", !.repository_id = repository_id,
                         !.fingerprint = fingerprint, !.event_severity = event_severity]]
    /\ UNCHANGED <<alerts, monitor_events, nOps, lastCall, dbVars, lifeVars, pipeVars,
                   analyzerVars, webhookVars, parserVars, uncommitted>>

\* await self._find_existing_alert(...): scalar_one_or_none raises on several rows,
\* and get_db rolls the request back.
FindExistingAlert(session) ==
    LET call == sessions[session]
        found == visible(session, "alerts",
                         find_existing_alert(call.repository_id, call.fingerprint))
    IN  /\ call.pc = "find_existing_alert"
        /\ sessions' = [sessions EXCEPT ![session] =
              IF Cardinality(found) > 1 THEN Idle
              ELSE IF found = {} THEN [call EXCEPT !.pc = "create_alert"]
              ELSE LET id == CHOOSE i \in found : TRUE
                   IN  [call EXCEPT !.pc = "update_alert", !.alert_id = id,
                                    !.alert = alerts[id]]]
        /\ UNCHANGED <<alertVars, dbVars, lifeVars, pipeVars, analyzerVars, webhookVars,
                       parserVars, uncommitted>>

\* Where process_event goes after the alert is written.
after_alert(alert) == IF must_escalate(alert) THEN "get_next_incident_number" ELSE "commit"

\* _create_alert up to its flush: the INSERT.
CreateAlert(session) ==
    LET call == sessions[session]
        alert == create_alert(call.repository_id, call.fingerprint, call.event_severity)
        id == Len(alerts) + 1
    IN  /\ call.pc = "create_alert"
        /\ alerts' = Append(alerts, alert)
        /\ monitor_events' = Append(monitor_events, [linked |-> 0, unlinked |-> 1])
        /\ uncommitted' = uncommitted \cup {<<"alerts", id, session>>}
        /\ sessions' = [sessions EXCEPT ![session] =
              [call EXCEPT !.pc = after_alert(alert), !.created = TRUE, !.alert_id = id,
                           !.alert = alert]]
        /\ UNCHANGED <<nEvents, nOps, lastCall, dbVars, lifeVars, pipeVars, analyzerVars,
                       webhookVars, parserVars>>

\* The sessions whose transaction has written a row of alerts and is still open.
writers(id) ==
    {o \in Sessions : /\ sessions[o].alert_id = id
                      /\ sessions[o].pc \in {"get_next_incident_number",
                                             "escalate_to_incident", "commit"}}

\* _update_alert up to its flush: the UPDATE sets the count the session computed from
\* the row it loaded.
UpdateAlert(session) ==
    LET call == sessions[session]
        alert == update_alert(call.alert)
    IN  /\ call.pc = "update_alert"
        /\ writers(call.alert_id) = {}
        /\ sessions' = [sessions EXCEPT ![session] =
              [call EXCEPT !.pc = after_alert(alert), !.alert = alert]]
        /\ UNCHANGED <<alertVars, dbVars, lifeVars, pipeVars, analyzerVars, webhookVars,
                       parserVars, uncommitted>>

\* _escalate_to_incident up to the await of get_next_incident_number.
GetNextIncidentNumber(session) ==
    LET call == sessions[session]
        seen == visible(session, "incidents",
                        {i \in DOMAIN incidents :
                            incidents[i].repository_id = call.repository_id})
        nums == {incidents[i].incident_number : i \in seen}
    IN  /\ call.pc = "get_next_incident_number"
        /\ sessions' = [sessions EXCEPT ![session] =
              [call EXCEPT !.pc = "escalate_to_incident",
                           !.alert = [@ EXCEPT !.status = "escalated"],
                           !.incident_number =
                               (IF nums = {} THEN 0
                                ELSE CHOOSE n \in nums : \A m \in nums : m <= n) + 1]]
        /\ UNCHANGED <<alertVars, dbVars, lifeVars, pipeVars, analyzerVars, webhookVars,
                       parserVars, uncommitted>>

\* The rest of _escalate_to_incident: the incident and its timeline entry are
\* inserted, the alert linked, INCIDENT_CREATED published.
EscalateToIncident(session) ==
    LET call == sessions[session]
        incident_id == Len(incidents) + 1
    IN  /\ call.pc = "escalate_to_incident"
        /\ incidents' = Append(incidents,
              [new_incident(call.alert, call.alert_id) EXCEPT
                  !.incident_number = call.incident_number])
        /\ timeline' = Append(timeline,
              [incident_id |-> incident_id, event_type |-> "incident_created",
               old_status |-> "none", new_status |-> "none"])
        /\ uncommitted' = uncommitted \cup {<<"incidents", incident_id, session>>,
                                            <<"timeline", Len(timeline) + 1, session>>}
        /\ queue' = queue \o escalation_events(incident_id, call.alert_id)
        /\ published' = published \o escalation_events(incident_id, call.alert_id)
        /\ sessions' = [sessions EXCEPT ![session] =
              [call EXCEPT !.pc = "commit", !.alert = [@ EXCEPT !.incident_id = incident_id]]]
        /\ UNCHANGED <<alertVars, now, lifeVars, pipeVars, analyzerVars, webhookVars,
                       parserVars>>

\* get_db after the endpoint returned: await session.commit(). The UPDATE of a loaded
\* alert set the columns the session changed: the count, and status and link when it
\* escalated.
CommitRequest(session) ==
    LET call == sessions[session]
        id == call.alert_id
        events == [monitor_events[id] EXCEPT
                      !.unlinked = IF call.created THEN @ ELSE @ + 1]
        escalated == call.incident_number # None
    IN  /\ call.pc = "commit"
        /\ alerts' = [alerts EXCEPT ![id] =
              IF call.created THEN call.alert
              ELSE [@ EXCEPT !.occurrence_count = call.alert.occurrence_count,
                             !.status = IF escalated THEN call.alert.status ELSE @,
                             !.incident_id = IF escalated THEN call.alert.incident_id
                                             ELSE @]]
        /\ monitor_events' = [monitor_events EXCEPT ![id] =
              IF call.incident_number # None
              THEN [linked |-> events.linked + events.unlinked, unlinked |-> 0]
              ELSE events]
        /\ uncommitted' = {row \in uncommitted : row[3] # session}
        /\ sessions' = [sessions EXCEPT ![session] = Idle]
        /\ UNCHANGED <<nEvents, nOps, lastCall, dbVars, lifeVars, pipeVars, analyzerVars,
                       webhookVars, parserVars>>

\* ------------------------------------------------------- incident lifecycle
\* A table in which Closed is final.
VALID_TRANSITIONS_closed_final(current) ==
    CASE current = OPEN -> {INVESTIGATING, WONT_FIX, CLOSED}
      [] current = INVESTIGATING -> {ROOT_CAUSE_IDENTIFIED, OPEN, WONT_FIX}
      [] current = ROOT_CAUSE_IDENTIFIED -> {FIX_IN_PROGRESS, WONT_FIX}
      [] current = FIX_IN_PROGRESS -> {FIX_PENDING_REVIEW, ROOT_CAUSE_IDENTIFIED}
      [] current = FIX_PENDING_REVIEW -> {FIX_MERGED, FIX_IN_PROGRESS}
      [] current = FIX_MERGED -> {VERIFYING}
      [] current = VERIFYING -> {RESOLVED, FIX_IN_PROGRESS}
      [] current = RESOLVED -> {CLOSED, OPEN}
      [] current = WONT_FIX -> {OPEN}
      [] OTHER -> {}

VALID_TRANSITIONS(current) ==
    CASE current = OPEN -> {INVESTIGATING, WONT_FIX, CLOSED}
      [] current = INVESTIGATING -> {ROOT_CAUSE_IDENTIFIED, OPEN, WONT_FIX}
      [] current = ROOT_CAUSE_IDENTIFIED -> {FIX_IN_PROGRESS, WONT_FIX}
      [] current = FIX_IN_PROGRESS -> {FIX_PENDING_REVIEW, ROOT_CAUSE_IDENTIFIED}
      [] current = FIX_PENDING_REVIEW -> {FIX_MERGED, FIX_IN_PROGRESS}
      [] current = FIX_MERGED -> {VERIFYING}
      [] current = VERIFYING -> {RESOLVED, FIX_IN_PROGRESS}
      [] current = RESOLVED -> {CLOSED, OPEN}
      [] current = CLOSED -> {OPEN}
      [] current = WONT_FIX -> {OPEN}
      [] OTHER -> {}

\* validate_transition looking the table up under the target.
validate_transition_swapped(current, target) ==
    current \in VALID_TRANSITIONS(target)

\* TRUE when validate_transition returns, FALSE when it raises.
validate_transition(current, target) ==
    target \in VALID_TRANSITIONS(current)

\* InvalidStateTransitionError(current_status, target_status)
InvalidStateTransitionError(current, target) ==
    [current_status |-> current, target_status |-> target]

NoError == [current_status |-> "none", target_status |-> "none"]

LifeIdle ==
    /\ nTransitions = 0
    /\ lastTransition = [op |-> "none", incident_id |-> None, target |-> "none",
                         result |-> "none", error |-> NoError]

\* The event transition_status publishes.
incident_updated(incident_id, old_status, new_status) ==
    [type |-> INCIDENT_UPDATED, incident_id |-> incident_id,
     old_status |-> old_status, new_status |-> new_status]

\* The rows and events a successful transition_status writes.
status_change(incident_id, old_status, new_status) ==
    /\ incidents' = [incidents EXCEPT
            ![incident_id].status = new_status,
            ![incident_id].resolved_at = IF new_status = RESOLVED THEN now ELSE @]
    /\ timeline' = Append(timeline,
            [incident_id |-> incident_id, event_type |-> "status_change",
             old_status |-> old_status, new_status |-> new_status])
    /\ queue' = Append(queue, incident_updated(incident_id, old_status, new_status))
    /\ published' = Append(published, incident_updated(incident_id, old_status, new_status))

\* IncidentService.transition_status as one committed call; a raise rolls it back.
TransitionStatus(incident_id, new_status) ==
    /\ nTransitions < MaxTransitions
    /\ incident_id \in DOMAIN incidents
    /\ nTransitions' = nTransitions + 1
    /\ LET old_status == incidents[incident_id].status IN
       IF validate_transition(old_status, new_status)
       THEN /\ status_change(incident_id, old_status, new_status)
            /\ lastTransition' = [op |-> "transition_status", incident_id |-> incident_id,
                                  target |-> new_status, result |-> "ok", error |-> NoError]
       ELSE /\ lastTransition' = [op |-> "transition_status", incident_id |-> incident_id,
                                  target |-> new_status, result |-> "raised",
                                  error |-> InvalidStateTransitionError(old_status, new_status)]
            /\ UNCHANGED <<incidents, timeline, queue, published>>
    /\ UNCHANGED <<alertVars, engineVars, now, pipeVars>>

\* POST /incidents/{id}/close and /reopen: validate, then repo.update the status.
set_incident_status(op, incident_id, new_status) ==
    /\ nTransitions < MaxTransitions
    /\ incident_id \in DOMAIN incidents
    /\ nTransitions' = nTransitions + 1
    /\ LET old_status == incidents[incident_id].status IN
       IF validate_transition(old_status, new_status)
       THEN /\ incidents' = [incidents EXCEPT ![incident_id].status = new_status]
            /\ lastTransition' = [op |-> op, incident_id |-> incident_id,
                                  target |-> new_status, result |-> "ok", error |-> NoError]
       ELSE /\ lastTransition' = [op |-> op, incident_id |-> incident_id,
                                  target |-> new_status, result |-> "raised",
                                  error |-> InvalidStateTransitionError(old_status, new_status)]
            /\ UNCHANGED incidents
    /\ UNCHANGED <<alertVars, engineVars, timeline, queue, published, now, pipeVars>>

close_incident(incident_id) == set_incident_status("close", incident_id, CLOSED)

reopen_incident(incident_id) == set_incident_status("reopen", incident_id, OPEN)

\* PATCH /incidents/{id}: IncidentUpdate has no status field; priority stands for
\* the fields it has.
update_incident(incident_id, priority) ==
    /\ nTransitions < MaxTransitions
    /\ incident_id \in DOMAIN incidents
    /\ incidents[incident_id].priority # priority
    /\ nTransitions' = nTransitions + 1
    /\ incidents' = [incidents EXCEPT ![incident_id].priority = priority]
    /\ lastTransition' = [op |-> "update", incident_id |-> incident_id, target |-> "none",
                          result |-> "ok", error |-> NoError]
    /\ UNCHANGED <<alertVars, engineVars, timeline, queue, published, now, pipeVars>>

\* ---------------------------------------------------------------- event bus
MONITOR_EVENT_RECEIVED == "monitor_event_received"

EventType ==
    {MONITOR_EVENT_RECEIVED, INCIDENT_CREATED, INCIDENT_UPDATED, "investigation_started",
     INVESTIGATION_COMPLETED, RCA_COMPLETED, FIX_GENERATED, "pr_created", "pr_merged",
     "verification_completed", "incident_resolved"}

\* event.data.get(key)
get(data, key) == IF key \in DOMAIN data THEN data[key] ELSE None

NoEvent == [type |-> "none"]

LoopAt(pc) == [pc |-> pc, event |-> NoEvent, idx |-> 0]

\* EventBus(): no handlers, not running, start not yet entered.
BusCreated ==
    /\ handlers = [k \in EventType |-> <<>>]
    /\ running = FALSE
    /\ loop = LoopAt("created")
    /\ calls = <<>>
    /\ dispatched = <<>>

\* A queue that hands out its newest event first.
get_newest(q) == [event |-> q[Len(q)], rest |-> SubSeq(q, 1, Len(q) - 1)]

\* asyncio.Queue.get: the oldest event, and what stays queued.
queue_get(q) == [event |-> Head(q), rest |-> Tail(q)]

\* One more call from outside, of the calls a run is allowed.
called(budget) ==
    /\ nCalls < budget
    /\ nCalls' = nCalls + 1

\* EventBus.subscribe
subscribe(event_type, handler) ==
    /\ handlers' = [handlers EXCEPT ![event_type] = Append(@, handler)]
    /\ UNCHANGED <<alertVars, dbVars, lifeVars, engineVars, running, loop, calls, dispatched, taskVars,
                   investigations, root_causes>>

\* EventBus.publish, called from outside the services.
publish(event) ==
    /\ queue' = Append(queue, event)
    /\ published' = Append(published, event)
    /\ UNCHANGED <<alertVars, incidents, timeline, now, lifeVars, engineVars, busVars, taskVars,
                   investigations, root_causes>>

\* EventBus.start up to its first wait on the queue.
start ==
    /\ loop.pc = "created"
    /\ running' = TRUE
    /\ loop' = LoopAt("waiting")
    /\ UNCHANGED <<alertVars, dbVars, lifeVars, engineVars, handlers, calls, dispatched, taskVars,
                   investigations, root_causes, nCalls>>

\* EventBus.stop
stop ==
    /\ running
    /\ running' = FALSE
    /\ UNCHANGED <<alertVars, dbVars, lifeVars, engineVars, handlers, loop, calls, dispatched, taskVars,
                   investigations, root_causes, nCalls>>

\* A loop that waits on the queue again whatever _running says.
while_true == LoopAt("waiting")

\* The while test of the loop: wait on the queue again, or leave.
while_running == LoopAt(IF running THEN "waiting" ELSE "stopped")

\* wait_for times out on an empty queue and the loop tests _running again.
LoopTimeout ==
    /\ loop.pc = "waiting"
    /\ queue = <<>>
    /\ loop' = while_running
    /\ UNCHANGED <<alertVars, dbVars, lifeVars, engineVars, handlers, running, calls, dispatched,
                   taskVars, investigations, root_causes, nCalls>>

\* The loop takes an event off the queue and calls the first handler of its kind;
\* with no handler the event is done at once.
LoopGet ==
    /\ loop.pc = "waiting"
    /\ queue # <<>>
    /\ LET got == queue_get(queue)
           hs == handlers[got.event.type]
       IN  /\ queue' = got.rest
           /\ IF hs = <<>>
              THEN /\ dispatched' = Append(dispatched, [event |-> got.event,
                                                        subscribed |-> hs])
                   /\ loop' = while_running
                   /\ UNCHANGED calls
              ELSE /\ loop' = [pc |-> "in_handler", event |-> got.event, idx |-> 1]
                   /\ calls' = Append(calls, [event_no |-> Len(dispatched) + 1,
                                              handler |-> hs[1], state |-> "started"])
                   /\ UNCHANGED dispatched
    /\ UNCHANGED <<alertVars, incidents, timeline, published, now, lifeVars, engineVars, handlers,
                   running, taskVars, investigations, root_causes, nCalls>>

\* The handler the loop is awaiting.
current_handler == handlers[loop.event.type][loop.idx]

\* A loop that gives up the event, and itself, when a handler raises.
handler_ends_loop(state) ==
    IF state = "raised"
    THEN /\ loop' = LoopAt("stopped")
         /\ calls' = [calls EXCEPT ![Len(calls)].state = state]
         /\ dispatched' = Append(dispatched, [event |-> loop.event,
                                               subscribed |-> handlers[loop.event.type]])
    ELSE LET hs == handlers[loop.event.type]
             over == [calls EXCEPT ![Len(calls)].state = state]
         IN  IF loop.idx < Len(hs)
             THEN /\ loop' = [loop EXCEPT !.idx = @ + 1]
                  /\ calls' = Append(over, [event_no |-> Len(dispatched) + 1,
                                            handler |-> hs[loop.idx + 1],
                                            state |-> "started"])
                  /\ UNCHANGED dispatched
             ELSE /\ loop' = while_running
                  /\ calls' = over
                  /\ dispatched' = Append(dispatched, [event |-> loop.event,
                                                        subscribed |-> hs])

\* The awaited handler is over: the for loop calls the next handler of the list, or
\* the event is done and the while test follows.
handler_ends(state) ==
    LET hs == handlers[loop.event.type]
        ended == [calls EXCEPT ![Len(calls)].state = state]
    IN  IF loop.idx < Len(hs)
        THEN /\ loop' = [loop EXCEPT !.idx = @ + 1]
             /\ calls' = Append(ended, [event_no |-> Len(dispatched) + 1,
                                        handler |-> hs[loop.idx + 1], state |-> "started"])
             /\ UNCHANGED dispatched
        ELSE /\ loop' = while_running
             /\ calls' = ended
             /\ dispatched' = Append(dispatched, [event |-> loop.event, subscribed |-> hs])

\* ------------------------------------------------------------- task manager
max_concurrent == MaxConcurrent

\* BackgroundTaskManager(max_concurrent): a full semaphore and no task.
TasksCreated ==
    /\ units = <<>>
    /\ tasks = {}
    /\ semaphore = max_concurrent
    /\ investigations = {}
    /\ root_causes = {}
    /\ nCalls = 0

NoWrites == [status |-> "none", timeline |-> <<>>, rows |-> {}, created_at |-> 0]

\* The task that submit creates around a coroutine: it waits for the semaphore first.
\* origin is who built the coroutine, cause the number of the event that asked for it.
Unit(task_id, kind, origin, incident_id, root_cause_id, cause) ==
    [task_id |-> task_id, kind |-> kind, origin |-> origin, incident_id |-> incident_id,
     root_cause_id |-> root_cause_id, cause |-> cause, state |-> "pending",
     must_cancel |-> FALSE, tx |-> "none", published |-> <<>>, writes |-> NoWrites]

\* A semaphore that keeps its last slot back.
locked_at_one(value) == value <= 1

\* A semaphore that never makes anyone wait.
never_locked(value) == FALSE

\* asyncio.Semaphore.locked
locked(value) == value = 0

\* The states in which _run is inside "async with self._semaphore".
Holding == {"running", "flushed"}

Unfinished == {"pending"} \cup Holding

\* A semaphore that a cancelled task does not give back.
release_unless_cancelled(unit) ==
    IF unit.state \in Holding /\ ~unit.must_cancel THEN semaphore + 1 ELSE semaphore

\* A submit that waits for a slot before it files the task.
submit_when_free(task_id, unit) ==
    /\ ~locked(semaphore)
    /\ Len(units) < MaxUnits
    /\ units' = Append(units, unit)
    /\ tasks' = {t \in tasks : t.task_id # task_id}
                    \cup {[task_id |-> task_id, unit |-> Len(units) + 1]}

\* Leaving "async with self._semaphore".
release(unit) == IF unit.state \in Holding THEN semaphore + 1 ELSE semaphore

\* A submit that leaves a key with the task first filed under it.
submit_keeps_handle(task_id, unit) ==
    /\ Len(units) < MaxUnits
    /\ units' = Append(units, unit)
    /\ tasks' = IF \E t \in tasks : t.task_id = task_id THEN tasks
                ELSE tasks \cup {[task_id |-> task_id, unit |-> Len(units) + 1]}

\* BackgroundTaskManager.submit: create the task, file it under its id.
submit(task_id, unit) ==
    /\ Len(units) < MaxUnits
    /\ units' = Append(units, unit)
    /\ tasks' = {t \in tasks : t.task_id # task_id}
                    \cup {[task_id |-> task_id, unit |-> Len(units) + 1]}

\* submit called with a coroutine of the caller's own.
Submit(task_id) ==
    /\ submit(task_id, Unit(task_id, "work", "caller", None, None, None))
    /\ UNCHANGED <<alertVars, dbVars, lifeVars, engineVars, busVars, semaphore, investigations,
                   root_causes>>

\* _run gets past "async with self._semaphore".
Acquire(u) ==
    /\ units[u].state = "pending"
    /\ ~units[u].must_cancel
    /\ ~locked(semaphore)
    /\ semaphore' = semaphore - 1
    /\ units' = [units EXCEPT ![u].state = "running"]
    /\ UNCHANGED <<alertVars, dbVars, lifeVars, engineVars, busVars, tasks, investigations,
                   root_causes, nCalls>>

\* The coroutine is over: "done" when it returned, "failed" when it raised.
work_ends(u, state) ==
    /\ units[u].kind = "work"
    /\ units[u].state = "running"
    /\ ~units[u].must_cancel
    /\ semaphore' = release(units[u])
    /\ units' = [units EXCEPT ![u].state = state]
    /\ UNCHANGED <<alertVars, dbVars, lifeVars, engineVars, busVars, tasks, investigations,
                   root_causes, nCalls>>

Return(u) == work_ends(u, "done")

Raise(u) == work_ends(u, "failed")

\* What BackgroundTaskManager.cancel returns: task and not task.done().
cancel_returns(task_id) ==
    \E t \in tasks : t.task_id = task_id /\ units[t.unit].state \in Unfinished

\* BackgroundTaskManager.cancel: task.cancel() on a task that is not done.
cancel(task_id) ==
    /\ IF cancel_returns(task_id)
       THEN \E t \in tasks :
               /\ t.task_id = task_id
               /\ units' = [units EXCEPT ![t.unit].must_cancel = TRUE]
       ELSE UNCHANGED units
    /\ UNCHANGED <<alertVars, dbVars, lifeVars, engineVars, busVars, tasks, semaphore, investigations,
                   root_causes>>

\* CancelledError reaches the task at the await it is suspended on; no handler of
\* _run or of the stage catches it, the session closes without a commit.
DeliverCancel(u) ==
    /\ units[u].must_cancel
    /\ units[u].state \in Unfinished
    /\ semaphore' = release(units[u])
    /\ units' = [units EXCEPT ![u].state = "cancelled",
                              ![u].tx = IF units[u].state = "flushed" THEN "abandoned"
                                        ELSE @]
    /\ UNCHANGED <<alertVars, dbVars, lifeVars, engineVars, busVars, tasks, investigations,
                   root_causes, nCalls>>

\* What a call gives back: a value, or the exception it raises.
Returns(value) == [raised |-> "none", value |-> value]

Raises(exception) == [raised |-> exception, value |-> "none"]

\* asyncio.Task.done
done(unit) == unit.state \notin Unfinished

\* asyncio.Task.exception on a task that is done: the exception the coroutine raised
\* or None, returned; on a cancelled task CancelledError, raised.
exception(unit) ==
    CASE unit.state = "cancelled" -> Raises("CancelledError")
      [] unit.state = "failed" -> Returns("Exception")
      [] OTHER -> Returns("None")

\* BackgroundTaskManager.get_status
get_status(task_id) ==
    LET found == {t \in tasks : t.task_id = task_id}
        task == units[(CHOOSE t \in found : TRUE).unit]
    IN  IF found = {} THEN Returns("None")
        ELSE IF done(task)
        THEN IF exception(task).raised # "none" THEN exception(task)
             ELSE IF exception(task).value = "None" THEN Returns("completed")
             ELSE Returns("failed")
        ELSE Returns("running")

\* ----------------------------------------------------------------- pipeline
investigation_completed(incident_id, investigation_id) ==
    [type |-> INVESTIGATION_COMPLETED, incident_id |-> incident_id,
     investigation_id |-> investigation_id]

rca_completed(incident_id, root_cause_id) ==
    [type |-> RCA_COMPLETED, incident_id |-> incident_id, root_cause_id |-> root_cause_id]

fix_generated(incident_id) == [type |-> FIX_GENERATED, incident_id |-> incident_id]

timeline_entry(incident_id, old_status, new_status) ==
    [incident_id |-> incident_id, event_type |-> "status_change",
     old_status |-> old_status, new_status |-> new_status]

\* HealingPipeline._on_incident_created
on_incident_created(event, event_no) ==
    LET incident_id == get(event, "incident_id") IN
    IF incident_id = None
    THEN UNCHANGED <<units, tasks>>
    ELSE submit(<<"investigate", incident_id>>,
                Unit(<<"investigate", incident_id>>, "investigate", "pipeline",
                     incident_id, None, event_no))

\* HealingPipeline._on_investigation_completed
on_investigation_completed(event, event_no) ==
    LET incident_id == get(event, "incident_id") IN
    IF incident_id = None
    THEN UNCHANGED <<units, tasks>>
    ELSE submit(<<"rca", incident_id>>,
                Unit(<<"rca", incident_id>>, "rca", "pipeline", incident_id, None,
                     event_no))

\* A handler that starts the fix whenever the incident id is there.
on_rca_completed_unchecked(event, event_no) ==
    LET incident_id == get(event, "incident_id")
        root_cause_id == get(event, "root_cause_id")
    IN  IF incident_id = None
        THEN UNCHANGED <<units, tasks>>
        ELSE submit(<<"heal", incident_id>>,
                    Unit(<<"heal", incident_id>>, "heal", "pipeline", incident_id,
                         root_cause_id, event_no))

\* HealingPipeline._on_rca_completed
on_rca_completed(event, event_no) ==
    LET incident_id == get(event, "incident_id")
        root_cause_id == get(event, "root_cause_id")
    IN  IF incident_id = None \/ root_cause_id = None
        THEN UNCHANGED <<units, tasks>>
        ELSE submit(<<"heal", incident_id>>,
                    Unit(<<"heal", incident_id>>, "heal", "pipeline", incident_id,
                         root_cause_id, event_no))

\* What awaiting a handler does; a handler of another subscriber touches nothing here.
handle(handler, event, event_no) ==
    CASE handler = "on_incident_created" -> on_incident_created(event, event_no)
      [] handler = "on_investigation_completed" ->
             on_investigation_completed(event, event_no)
      [] handler = "on_rca_completed" -> on_rca_completed(event, event_no)
      [] OTHER -> UNCHANGED <<units, tasks>>

\* HealingPipeline(event_bus, task_manager, session_factory): the three subscriptions.
PipelineWired ==
    /\ handlers = [k \in EventType |->
                      CASE k = INCIDENT_CREATED -> <<"on_incident_created">>
                        [] k = INVESTIGATION_COMPLETED -> <<"on_investigation_completed">>
                        [] k = RCA_COMPLETED -> <<"on_rca_completed">>
                        [] OTHER -> <<>>]
    /\ running = FALSE
    /\ loop = LoopAt("created")
    /\ calls = <<>>
    /\ dispatched = <<>>

\* The handler the loop awaits returns.
HandlerReturns ==
    /\ loop.pc = "in_handler"
    /\ handle(current_handler, loop.event, Len(dispatched) + 1)
    /\ handler_ends("returned")
    /\ UNCHANGED <<alertVars, dbVars, lifeVars, engineVars, handlers, running, semaphore,
                   investigations, root_causes, nCalls>>

\* The handler the loop awaits raises; the loop logs it and goes on.
HandlerRaises ==
    /\ loop.pc = "in_handler"
    /\ current_handler \in Handlers
    /\ handler_ends("raised")
    /\ UNCHANGED <<alertVars, dbVars, lifeVars, engineVars, handlers, running, taskVars,
                   investigations, root_causes, nCalls>>

\* How a stage unit ends when its coroutine raised: the pipeline's coroutine logs
\* and returns, the endpoint's re-raises.
ended(unit, raised) == IF raised /\ unit.origin = "endpoint" THEN "failed" ELSE "done"

\* The events a stage put on the bus.
stage_publishes(events) ==
    /\ queue' = queue \o events
    /\ published' = published \o events

\* except Exception: await db.rollback()
rolls_back(u, events) ==
    /\ units' = [units EXCEPT ![u].state = ended(units[u], TRUE),
                              ![u].tx = "rolled_back",
                              ![u].published = @ \o events]
    /\ semaphore' = release(units[u])
    /\ stage_publishes(events)

\* The service returned: its writes are flushed, the commit is still to come.
returns(u, events, writes) ==
    /\ units' = [units EXCEPT ![u].state = "flushed",
                              ![u].tx = "open",
                              ![u].published = @ \o events,
                              ![u].writes = writes]
    /\ UNCHANGED semaphore
    /\ stage_publishes(events)

StageReady(u, kind) ==
    /\ units[u].kind = kind
    /\ units[u].state = "running"
    /\ ~units[u].must_cancel

\* InvestigationService.investigate in the unit's own session; fails: a collaborator
\* or a flush raises after the transition.
Investigate(u, fails) ==
    /\ StageReady(u, "investigate")
    /\ LET i == units[u].incident_id IN
       IF i \notin committed("incidents", DOMAIN incidents)
       THEN rolls_back(u, <<>>)
       ELSE LET old == incidents[i].status
                updated == incident_updated(i, old, INVESTIGATING)
            IN  IF ~validate_transition(old, INVESTIGATING)
                THEN rolls_back(u, <<>>)
                ELSE IF fails
                THEN rolls_back(u, <<updated>>)
                ELSE returns(u, <<updated, investigation_completed(i, u)>>,
                             [status |-> INVESTIGATING,
                              timeline |-> <<timeline_entry(i, old, INVESTIGATING)>>,
                              rows |-> {"investigation"},
                              created_at |-> Len(published)])
    /\ UNCHANGED <<alertVars, incidents, timeline, now, lifeVars, engineVars, busVars, tasks,
                   investigations, root_causes, nCalls>>

\* RCAService.analyze in the unit's own session; fails: the council or the flush of
\* the root cause raises.
Analyze(u, fails) ==
    /\ StageReady(u, "rca")
    /\ LET i == units[u].incident_id
           found == {v \in investigations : v.incident_id = i}
       IN  IF Cardinality(found) # 1 \/ fails
           THEN rolls_back(u, <<>>)
           ELSE LET old == incidents[i].status
                    updated == incident_updated(i, old, ROOT_CAUSE_IDENTIFIED)
                IN  IF ~validate_transition(old, ROOT_CAUSE_IDENTIFIED)
                    THEN rolls_back(u, <<>>)
                    ELSE returns(u, <<updated, rca_completed(i, u)>>,
                                 [status |-> ROOT_CAUSE_IDENTIFIED,
                                  timeline |-> <<timeline_entry(i, old,
                                                                ROOT_CAUSE_IDENTIFIED)>>,
                                  rows |-> {"root_cause"},
                                  created_at |-> Len(published)])
    /\ UNCHANGED <<alertVars, incidents, timeline, now, lifeVars, engineVars, busVars, tasks,
                   investigations, root_causes, nCalls>>

FixOutcomes == {"raise", "no_fix", "fix", "fix_pr"}

\* HealingService.generate_fix in the unit's own session; outcome: what the fix
\* generator, the verifier and the pull-request creator come back with.
GenerateFix(u, outcome) ==
    /\ StageReady(u, "heal")
    /\ LET i == units[u].incident_id
           rc == units[u].root_cause_id
       IN  IF \/ rc = None
              \/ i \notin committed("incidents", DOMAIN incidents)
              \/ ~\E r \in root_causes : r.id = rc
           THEN rolls_back(u, <<>>)
           ELSE LET old == incidents[i].status
                    updated == incident_updated(i, old, FIX_IN_PROGRESS)
                    entry == timeline_entry(i, old, FIX_IN_PROGRESS)
                    review == incident_updated(i, FIX_IN_PROGRESS, FIX_PENDING_REVIEW)
                IN  IF ~validate_transition(old, FIX_IN_PROGRESS)
                    THEN rolls_back(u, <<>>)
                    ELSE CASE outcome = "raise" -> rolls_back(u, <<updated>>)
                           [] outcome = "no_fix" ->
                                returns(u, <<updated>>,
                                        [NoWrites EXCEPT !.status = FIX_IN_PROGRESS,
                                                         !.timeline = <<entry>>])
                           [] outcome = "fix" ->
                                returns(u, <<updated, fix_generated(i)>>,
                                        [NoWrites EXCEPT !.status = FIX_IN_PROGRESS,
                                                         !.timeline = <<entry>>])
                           [] outcome = "fix_pr" ->
                                IF ~validate_transition(FIX_IN_PROGRESS, FIX_PENDING_REVIEW)
                                THEN rolls_back(u, <<updated>>)
                                ELSE returns(u, <<updated, review, fix_generated(i)>>,
                                        [NoWrites EXCEPT
                                            !.status = FIX_PENDING_REVIEW,
                                            !.timeline = <<entry,
                                                timeline_entry(i, FIX_IN_PROGRESS,
                                                               FIX_PENDING_REVIEW)>>])
    /\ UNCHANGED <<alertVars, incidents, timeline, now, lifeVars, engineVars, busVars, tasks,
                   investigations, root_causes, nCalls>>

\* A commit whose failure leaves the flushed writes in the database.
Commit_keeps_writes(u, ok) ==
    /\ units[u].state = "flushed"
    /\ ~units[u].must_cancel
    /\ semaphore' = release(units[u])
    /\ LET unit == units[u]
           w == unit.writes
           row == [id |-> u, incident_id |-> unit.incident_id, created_at |-> w.created_at]
       IN  /\ units' = [units EXCEPT ![u].state = ended(unit, ~ok),
                                     ![u].tx = IF ok THEN "committed" ELSE "rolled_back"]
           /\ incidents' = [incidents EXCEPT ![unit.incident_id].status = w.status]
           /\ timeline' = timeline \o w.timeline
           /\ investigations' = IF "investigation" \in w.rows
                                THEN investigations \cup {row} ELSE investigations
           /\ root_causes' = IF "root_cause" \in w.rows
                             THEN root_causes \cup {row} ELSE root_causes
    /\ UNCHANGED <<alertVars, queue, published, now, lifeVars, engineVars, busVars, tasks, nCalls>>

\* await db.commit() of a stage unit: the flushed writes become visible, or the
\* commit raises and the unit rolls back.
Commit(u, ok) ==
    /\ units[u].state = "flushed"
    /\ ~units[u].must_cancel
    /\ semaphore' = release(units[u])
    /\ LET unit == units[u]
           w == unit.writes
           row == [id |-> u, incident_id |-> unit.incident_id, created_at |-> w.created_at]
       IN  IF ok
           THEN /\ units' = [units EXCEPT ![u].state = ended(unit, FALSE),
                                          ![u].tx = "committed"]
                /\ incidents' = [incidents EXCEPT ![unit.incident_id].status = w.status]
                /\ timeline' = timeline \o w.timeline
                /\ investigations' = IF "investigation" \in w.rows
                                     THEN investigations \cup {row} ELSE investigations
                /\ root_causes' = IF "root_cause" \in w.rows
                                  THEN root_causes \cup {row} ELSE root_causes
           ELSE /\ units' = [units EXCEPT ![u].state = ended(unit, TRUE),
                                          ![u].tx = "rolled_back"]
                /\ UNCHANGED <<incidents, timeline, investigations, root_causes>>
    /\ UNCHANGED <<alertVars, queue, published, now, lifeVars, engineVars, busVars, tasks, nCalls>>

\* A stage unit has written the incident's row and has not committed: an UPDATE of
\* the row by another transaction waits.
row_locked(incident_id) ==
    \E u \in DOMAIN units : /\ units[u].state = "flushed"
                            /\ units[u].incident_id = incident_id
                            /\ units[u].writes.status # "none"

\* POST /incidents/{id}/close and /reopen in a request of its own session, up to the
\* flush of repo.update: the incident is read and the transition validated.
RequestValidates(session, op, incident_id, new_status, maxCalls) ==
    /\ sessions[session].pc = "idle"
    /\ nTransitions < maxCalls
    /\ incident_id \in committed("incidents", DOMAIN incidents)
    /\ nTransitions' = nTransitions + 1
    /\ LET old_status == incidents[incident_id].status IN
       IF validate_transition(old_status, new_status)
       THEN /\ sessions' = [sessions EXCEPT ![session] =
                   [Idle EXCEPT !.pc = "update", !.op = op, !.incident_id = incident_id,
                                !.target = new_status]]
            /\ UNCHANGED lastTransition
       ELSE /\ lastTransition' = [op |-> op, incident_id |-> incident_id,
                                  target |-> new_status, result |-> "raised",
                                  error |-> InvalidStateTransitionError(old_status, new_status)]
            /\ UNCHANGED sessions
    /\ UNCHANGED <<alertVars, dbVars, pipeVars, analyzerVars, webhookVars, parserVars,
                   uncommitted>>

\* The rest of the request: the UPDATE of repo.update, once the row is free, and
\* get_db's commit.
RepoUpdate(session) ==
    LET call == sessions[session] IN
    /\ call.pc = "update"
    /\ ~row_locked(call.incident_id)
    /\ incidents' = [incidents EXCEPT ![call.incident_id].status = call.target]
    /\ lastTransition' = [op |-> call.op, incident_id |-> call.incident_id,
                          target |-> call.target, result |-> "ok", error |-> NoError]
    /\ sessions' = [sessions EXCEPT ![session] = Idle]
    /\ UNCHANGED <<alertVars, timeline, queue, published, now, nTransitions, pipeVars,
                   analyzerVars, webhookVars, parserVars, uncommitted>>

\* POST /incidents/{id}/investigate
trigger_investigation(incident_id) ==
    /\ incident_id \in DOMAIN incidents
    /\ submit(<<"investigate", incident_id>>,
              Unit(<<"investigate", incident_id>>, "investigate", "endpoint", incident_id,
                   None, None))
    /\ UNCHANGED <<alertVars, dbVars, lifeVars, engineVars, busVars, semaphore, investigations,
                   root_causes>>

\* POST /incidents/{id}/heal: with the incident's latest root cause, or with none.
trigger_healing(incident_id) ==
    /\ incident_id \in DOMAIN incidents
    /\ LET found == {r \in root_causes : r.incident_id = incident_id}
           latest == CHOOSE r \in found : \A o \in found : o.created_at <= r.created_at
       IN  submit(<<"heal", incident_id>>,
                  Unit(<<"heal", incident_id>>, "heal", "endpoint", incident_id,
                       IF found = {} THEN None ELSE latest.id, None))
    /\ UNCHANGED <<alertVars, dbVars, lifeVars, engineVars, busVars, semaphore, investigations,
                   root_causes>>

\* ------------------------------------------------------------ stacktrace parser
\* An Optional[str] that is None.
NoneStr == "None"

TRACEBACK == "Traceback (most recent call last):"
PYTHON_FRAME_LINE == "  File \"app.py\", line 10, in main"
CODE_LINE == "    foo()"
ERROR_LINE == "RuntimeError: boom"
ERROR_LINE_PADDED == "RuntimeError: boom  "
BLANK_LINE == ""
SPACES_LINE == "   "
PANIC_LINE == "panic: runtime error: index out of range"
FAILED_LINE == "FAILED tests/test_api.py::test_login - AssertionError"
LINT_LINE == "src/main.py:42:10: E302 expected 2 blank lines"
INFO_LINE == "Starting server on port 8000"
FATAL_LINE == "FATAL: disk full"
START_AND_BUILD_LINE == "panic:1:2: error: x"
ERROR_AND_BUILD_LINE == "ValueError: a:1:2: error: x"
FAILED_AND_BUILD_LINE == "FAILED a:1:2: error: x"
PYTHON_FRAME_LINE_2 == "  File \"util.py\", line 20, in helper"
JS_FRAME_LINE == "    at run (app.js:10:5)"
GO_FRAME_LINE == "\tmain.go:12 +0x1d"
JAVA_FRAME_LINE == "\tat com.foo.Bar.baz(Bar.java:42)"

\* The lines the analyzer is fed, as they arrive.
Lines ==
    {TRACEBACK, PYTHON_FRAME_LINE, CODE_LINE, ERROR_LINE, ERROR_LINE_PADDED, BLANK_LINE,
     SPACES_LINE, PANIC_LINE, FAILED_LINE, LINT_LINE, INFO_LINE, FATAL_LINE,
     START_AND_BUILD_LINE, ERROR_AND_BUILD_LINE, FAILED_AND_BUILD_LINE}

\* str.rstrip(): the line without its trailing whitespace.
rstrip(line) ==
    CASE line = ERROR_LINE_PADDED -> ERROR_LINE
      [] line = SPACES_LINE -> BLANK_LINE
      [] OTHER -> line

StackFrame(file_path, line_number, function_name) ==
    [file_path |-> file_path, line_number |-> line_number, function_name |-> function_name]

ParsedStacktrace(frames, error_type, error_message, language) ==
    [frames |-> frames, error_type |-> error_type, error_message |-> error_message,
     language |-> language]

Dialects == <<"python", "javascript", "go", "java">>

\* The frames a dialect's frame pattern finds in one line, left to right.
frame_matches(dialect, line) ==
    CASE dialect = "python" /\ line = PYTHON_FRAME_LINE ->
            <<StackFrame("app.py", 10, "main")>>
      [] dialect = "python" /\ line = PYTHON_FRAME_LINE_2 ->
            <<StackFrame("util.py", 20, "helper")>>
      [] dialect = "javascript" /\ line = JS_FRAME_LINE ->
            <<StackFrame("app.js", 10, "run")>>
      [] dialect = "go" /\ line = GO_FRAME_LINE ->
            <<StackFrame("main.go", 12, NoneStr)>>
      [] dialect = "java" /\ line = JAVA_FRAME_LINE ->
            <<StackFrame("Bar.java", 42, "com.foo.Bar.baz")>>
      [] OTHER -> <<>>

\* What a dialect's error pattern captures in one line: <<type, message>>, or <<>>.
error_match(dialect, line) ==
    IF dialect \in {"python", "javascript", "java"} /\ line = ERROR_LINE
    THEN <<"RuntimeError", "boom">>
    ELSE IF dialect \in {"python", "javascript", "java"} /\ line = ERROR_AND_BUILD_LINE
    THEN <<"ValueError", "a:1:2: error: x">>
    ELSE <<>>

RECURSIVE finditer(_, _)
finditer(dialect, text) ==
    IF text = <<>> THEN <<>>
    ELSE frame_matches(dialect, Head(text)) \o finditer(dialect, Tail(text))

RECURSIVE search(_, _)
search(dialect, text) ==
    IF text = <<>> THEN <<>>
    ELSE IF error_match(dialect, Head(text)) # <<>> THEN error_match(dialect, Head(text))
    ELSE search(dialect, Tail(text))

\* StacktraceParser._parse_python, _parse_javascript, _parse_go, _parse_java
parse_dialect(dialect, text) ==
    LET error == IF dialect = "go" THEN <<>> ELSE search(dialect, text)
    IN  ParsedStacktrace(finditer(dialect, text),
                         IF error = <<>> THEN NoneStr ELSE error[1],
                         IF error = <<>> THEN NoneStr ELSE error[2],
                         NoneStr)

\* A parse that lists the frames of the first matching dialect innermost first.
parse_innermost_first(text) ==
    LET matching == {d \in DOMAIN Dialects : parse_dialect(Dialects[d], text).frames # <<>>}
        first == CHOOSE d \in matching : \A o \in matching : d <= o
        result == parse_dialect(Dialects[first], text)
    IN  IF text = <<>> \/ text = <<"">> \/ matching = {}
        THEN ParsedStacktrace(<<>>, NoneStr, NoneStr, NoneStr)
        ELSE [result EXCEPT !.language = Dialects[first],
                            !.frames = [k \in DOMAIN result.frames |->
                                           result.frames[Len(result.frames) + 1 - k]]]

\* StacktraceParser.parse, on a text given as its lines.
parse(text) ==
    LET matching == {d \in DOMAIN Dialects : parse_dialect(Dialects[d], text).frames # <<>>}
        first == CHOOSE d \in matching : \A o \in matching : d <= o
    IN  IF text = <<>> \/ text = <<"">> \/ matching = {}
        THEN ParsedStacktrace(<<>>, NoneStr, NoneStr, NoneStr)
        ELSE [parse_dialect(Dialects[first], text) EXCEPT !.language = Dialects[first]]

\* Before the parser's first call.
ParserCreated ==
    /\ parsed_text = <<>>
    /\ parse_result = ParsedStacktrace(<<>>, NoneStr, NoneStr, NoneStr)

\* One call of StacktraceParser.parse; a text that raises leaves no result.
Parse(text) ==
    /\ parsed_text' = text
    /\ parse_result' = parse(text)
    /\ UNCHANGED <<alertVars, dbVars, lifeVars, pipeVars, analyzerVars, webhookVars, raceVars>>

\* ------------------------------------------------------------ output analyzer
MAX_BUFFER_LINES == 50

ERROR_START_PATTERNS(stripped) == stripped \in {TRACEBACK, PANIC_LINE, START_AND_BUILD_LINE}

\* group(1) of the first single-line pattern that matches, in a sequence; <<>> if none.
SINGLE_LINE_ERRORS(stripped) ==
    CASE stripped = ERROR_LINE -> <<"RuntimeError">>
      [] stripped = ERROR_AND_BUILD_LINE -> <<"ValueError">>
      [] stripped = FATAL_LINE -> <<"disk full">>
      [] OTHER -> <<>>

TEST_FAILURE_PATTERNS(stripped) == stripped \in {FAILED_LINE, FAILED_AND_BUILD_LINE}

\* The first build pattern that matches: its group count and first two groups.
BUILD_FAILURE_PATTERNS(stripped) ==
    CASE stripped = LINT_LINE ->
            <<[lastindex |-> 4, file_path |-> "src/main.py", line_number |-> 42]>>
      [] stripped = START_AND_BUILD_LINE ->
            <<[lastindex |-> 4, file_path |-> "panic", line_number |-> 1]>>
      [] stripped = ERROR_AND_BUILD_LINE ->
            <<[lastindex |-> 4, file_path |-> "ValueError: a", line_number |-> 1]>>
      [] stripped = FAILED_AND_BUILD_LINE ->
            <<[lastindex |-> 4, file_path |-> "FAILED a", line_number |-> 1]>>
      [] OTHER -> <<>>

\* A stacktrace is <<>> for None and <<lines>> for a text, the text as its lines.
DetectedError(error_type, message, stacktrace, file_path, line_number, severity, language) ==
    [error_type |-> error_type, message |-> message, stacktrace |-> stacktrace,
     file_path |-> file_path, line_number |-> line_number, severity |-> severity,
     language |-> language]

AnalyzerCreated ==
    /\ buffer = <<>>
    /\ in_error_block = FALSE
    /\ blank_line_count = 0
    /\ lastReturn = <<>>
    /\ lastOp = "none"
    /\ discarded = {}
    /\ fed_block = <<>>
    /\ nFeeds = 0

fed(budget) == nFeeds < budget /\ nFeeds' = nFeeds + 1

\* What _flush_buffer returns for a buffer: <<>> for None.
flush_buffer_returns(text) ==
    LET parsed == parse(text)
        last_line == IF text = <<"">> THEN "Unknown error" ELSE text[Len(text)]
    IN  IF text = <<>> THEN <<>>
        ELSE IF parsed.frames # <<>>
        THEN <<DetectedError(parsed.error_type,
                             IF parsed.error_message # NoneStr /\ parsed.error_message # ""
                             THEN parsed.error_message ELSE last_line,
                             <<text>>, parsed.frames[1].file_path,
                             parsed.frames[1].line_number, "error", parsed.language)>>
        ELSE <<DetectedError(IF parsed.error_type # NoneStr /\ parsed.error_type # ""
                             THEN parsed.error_type ELSE "UnknownError",
                             last_line, <<text>>, NoneStr, None, "error", NoneStr)>>

\* _flush_buffer that returns the block but leaves it pending.
flush_buffer_keeps_block(text, blank_lines) ==
    /\ UNCHANGED <<buffer, in_error_block>>
    /\ blank_line_count' = IF text = <<>> THEN blank_lines ELSE 0
    /\ lastReturn' = flush_buffer_returns(text)

\* OutputAnalyzer._flush_buffer
flush_buffer(text, blank_lines) ==
    /\ buffer' = <<>>
    /\ in_error_block' = FALSE
    /\ blank_line_count' = IF text = <<>> THEN blank_lines ELSE 0
    /\ lastReturn' = flush_buffer_returns(text)

\* A classification that tries the build patterns before the others.
classify_build_first(stripped) ==
    IF BUILD_FAILURE_PATTERNS(stripped) # <<>>
    THEN LET m == BUILD_FAILURE_PATTERNS(stripped)[1]
         IN  <<DetectedError("BuildError", stripped, <<>>,
                             IF m.lastindex >= 2 THEN m.file_path ELSE NoneStr,
                             IF m.lastindex >= 2 THEN m.line_number ELSE None,
                             "warning", NoneStr)>>
    ELSE IF SINGLE_LINE_ERRORS(stripped) # <<>>
    THEN <<DetectedError(SINGLE_LINE_ERRORS(stripped)[1], stripped, <<>>, NoneStr, None,
                         "error", NoneStr)>>
    ELSE IF TEST_FAILURE_PATTERNS(stripped)
    THEN <<DetectedError("TestFailure", stripped, <<>>, NoneStr, None, "error", NoneStr)>>
    ELSE <<>>

\* What feed_line returns for a line outside a block that starts none.
classify(stripped) ==
    IF SINGLE_LINE_ERRORS(stripped) # <<>>
    THEN <<DetectedError(SINGLE_LINE_ERRORS(stripped)[1], stripped, <<>>, NoneStr, None,
                         "error", NoneStr)>>
    ELSE IF TEST_FAILURE_PATTERNS(stripped)
    THEN <<DetectedError("TestFailure", stripped, <<>>, NoneStr, None, "error", NoneStr)>>
    ELSE IF BUILD_FAILURE_PATTERNS(stripped) # <<>>
    THEN LET m == BUILD_FAILURE_PATTERNS(stripped)[1]
         IN  <<DetectedError("BuildError", stripped, <<>>,
                             IF m.lastindex >= 2 THEN m.file_path ELSE NoneStr,
                             IF m.lastindex >= 2 THEN m.line_number ELSE None,
                             "warning", NoneStr)>>
    ELSE <<>>

\* A block that ends on its first blank line.
ends_block_at_once(blank_lines) == blank_lines >= 1

\* A block that ends on its third blank line.
ends_block_at_third(blank_lines) == blank_lines >= 3

\* if self._blank_line_count >= 2
ends_block(blank_lines) == blank_lines >= 2

\* OutputAnalyzer.feed_line
feed_line(line) ==
    LET stripped == rstrip(line)
        keep == /\ lastReturn' = <<>>
                /\ in_error_block' = in_error_block
    IN  /\ IF in_error_block
           THEN IF stripped = ""
                THEN IF ends_block(blank_line_count + 1)
                     THEN flush_buffer(buffer, blank_line_count + 1)
                     ELSE /\ blank_line_count' = blank_line_count + 1
                          /\ buffer' = Append(buffer, stripped)
                          /\ keep
                ELSE LET appended == Append(buffer, stripped)
                     IN  IF Len(appended) >= MAX_BUFFER_LINES
                            \/ SINGLE_LINE_ERRORS(stripped) # <<>>
                         THEN flush_buffer(appended, 0)
                         ELSE /\ blank_line_count' = 0
                              /\ buffer' = appended
                              /\ keep
           ELSE IF ERROR_START_PATTERNS(stripped)
                THEN /\ in_error_block' = TRUE
                     /\ blank_line_count' = 0
                     /\ buffer' = <<stripped>>
                     /\ lastReturn' = <<>>
                ELSE /\ lastReturn' = classify(stripped)
                     /\ UNCHANGED <<buffer, in_error_block, blank_line_count>>
        /\ lastOp' = "feed_line"
        /\ discarded' = discarded \ {stripped}
        /\ fed_block' = IF in_error_block'
                        THEN Append(IF in_error_block THEN fed_block ELSE <<>>, line)
                        ELSE <<>>
        /\ UNCHANGED <<alertVars, dbVars, lifeVars, pipeVars, webhookVars, parserVars, raceVars>>

\* OutputAnalyzer.flush
flush ==
    /\ IF buffer # <<>>
       THEN flush_buffer(buffer, blank_line_count)
       ELSE /\ lastReturn' = <<>>
            /\ UNCHANGED <<buffer, in_error_block, blank_line_count>>
    /\ lastOp' = "flush"
    /\ fed_block' = <<>>
    /\ UNCHANGED <<discarded, alertVars, dbVars, lifeVars, pipeVars, webhookVars, parserVars, raceVars>>

\* reset that leaves the block in the buffer.
reset_keeps_buffer ==
    /\ in_error_block' = FALSE
    /\ blank_line_count' = 0
    /\ lastReturn' = <<>>
    /\ lastOp' = "reset"
    /\ fed_block' = <<>>
    /\ discarded' = discarded \cup {buffer[i] : i \in DOMAIN buffer}
    /\ UNCHANGED <<buffer, alertVars, dbVars, lifeVars, pipeVars, webhookVars, parserVars, raceVars>>

\* OutputAnalyzer.reset
reset ==
    /\ buffer' = <<>>
    /\ in_error_block' = FALSE
    /\ blank_line_count' = 0
    /\ lastReturn' = <<>>
    /\ lastOp' = "reset"
    /\ fed_block' = <<>>
    /\ discarded' = discarded \cup {buffer[i] : i \in DOMAIN buffer}
    /\ UNCHANGED <<alertVars, dbVars, lifeVars, pipeVars, webhookVars, parserVars, raceVars>>

\* A loop step that classifies every line by itself and opens no block.
fed_without_blocks(a, line) ==
    [a EXCEPT !.errors = a.errors \o classify(rstrip(line))]

\* The analyzer as feed_line leaves it inside analyze_output, where errors is the list
\* the call collects: a holds _buffer, _in_error_block, _blank_line_count and errors.
fed_in_loop(a, line) ==
    LET stripped == rstrip(line)
        flushed(text, blank_lines) ==
            [buffer |-> <<>>, in_error_block |-> FALSE,
             blank_line_count |-> IF text = <<>> THEN blank_lines ELSE 0,
             errors |-> a.errors \o flush_buffer_returns(text)]
    IN  IF a.in_error_block
        THEN IF stripped = ""
             THEN IF ends_block(a.blank_line_count + 1)
                  THEN flushed(a.buffer, a.blank_line_count + 1)
                  ELSE [a EXCEPT !.blank_line_count = a.blank_line_count + 1,
                                 !.buffer = Append(a.buffer, stripped)]
             ELSE LET appended == Append(a.buffer, stripped)
                  IN  IF Len(appended) >= MAX_BUFFER_LINES
                         \/ SINGLE_LINE_ERRORS(stripped) # <<>>
                      THEN flushed(appended, 0)
                      ELSE [a EXCEPT !.blank_line_count = 0, !.buffer = appended]
        ELSE IF ERROR_START_PATTERNS(stripped)
             THEN [a EXCEPT !.in_error_block = TRUE, !.blank_line_count = 0,
                            !.buffer = <<stripped>>]
             ELSE [a EXCEPT !.errors = a.errors \o classify(stripped)]

RECURSIVE fed_all(_, _)
\* for line in text.split("\n"): feed_line(line)
fed_all(a, lines) ==
    IF lines = <<>> THEN a ELSE fed_all(fed_in_loop(a, Head(lines)), Tail(lines))

\* OutputAnalyzer.analyze_output: text is the list text.split("\n") gives.
analyze_output(text) ==
    LET was_reset == [buffer |-> <<>>, in_error_block |-> FALSE, blank_line_count |-> 0,
                      errors |-> <<>>]
        a == fed_all(was_reset, text)
    IN  /\ IF a.buffer # <<>>
           THEN /\ buffer' = <<>>
                /\ in_error_block' = FALSE
                /\ blank_line_count' = 0
                /\ lastReturn' = a.errors \o flush_buffer_returns(a.buffer)
           ELSE /\ buffer' = a.buffer
                /\ in_error_block' = a.in_error_block
                /\ blank_line_count' = a.blank_line_count
                /\ lastReturn' = a.errors
        /\ lastOp' = "analyze_output"
        /\ fed_block' = <<>>
        /\ discarded' = (discarded \cup {buffer[i] : i \in DOMAIN buffer})
                            \ {rstrip(text[i]) : i \in DOMAIN text}
        /\ UNCHANGED <<alertVars, dbVars, lifeVars, pipeVars, webhookVars, parserVars, raceVars>>

\* ------------------------------------------------------------ event normalizer
\* A str is the sequence of its characters. An Optional[str] that is None is the text
\* NoneText, which no str equals: its one element is not a character.
NoneText == <<NoneStr>>

COMPLETED == <<"c", "o", "m", "p", "l", "e", "t", "e", "d">>
REQUESTED == <<"r", "e", "q", "u", "e", "s", "t", "e", "d">>
FAILURE == <<"f", "a", "i", "l", "u", "r", "e">>
SUCCESS == <<"s", "u", "c", "c", "e", "s", "s">>
TIMED_OUT == <<"t", "i", "m", "e", "d", "_", "o", "u", "t">>
UNKNOWN == <<"u", "n", "k", "n", "o", "w", "n">>
WorkflowFailure == <<"W", "o", "r", "k", "f", "l", "o", "w", "F", "a", "i", "l", "u", "r", "e">>
CheckRunFailure == <<"C", "h", "e", "c", "k", "R", "u", "n", "F", "a", "i", "l", "u", "r", "e">>

\* dict.get(key, default)
dict_get(d, key, default) == IF key \in DOMAIN d THEN d[key] ELSE default

\* x or "", for an Optional[str]
or_empty(text) == IF text = NoneText THEN <<>> ELSE text

\* text[:n]
prefix(text, n) == SubSeq(text, 1, IF Len(text) < n THEN Len(text) ELSE n)

\* sep.join(parts)
RECURSIVE join(_, _)
join(sep, parts) ==
    IF parts = <<>> THEN <<>>
    ELSE IF Len(parts) = 1 THEN parts[1]
    ELSE parts[1] \o sep \o join(sep, Tail(parts))

\* hashlib.sha256(raw.encode()).hexdigest(): texts that differ have digests that
\* differ (no collision is known), so the digest is the text under the hash's name.
sha256(raw) == <<"sha256">> \o raw

\* The number of characters of the message that the fingerprint takes in.
FingerprintMessageChars == 200

\* A fingerprint that takes no account of the file path.
compute_fingerprint_without_path(error_type, file_path, error_message) ==
    sha256(join(<<"|">>, <<or_empty(error_type),
                           prefix(or_empty(error_message), FingerprintMessageChars)>>))

\* NormalizedEvent._compute_fingerprint
compute_fingerprint(error_type, file_path, error_message) ==
    sha256(join(<<"|">>, <<or_empty(error_type), or_empty(file_path),
                           prefix(or_empty(error_message), FingerprintMessageChars)>>))

\* NormalizedEvent.__init__, with the fields the model follows.
NormalizedEvent(source, severity, error_message, error_type, file_path) ==
    [source |-> source, severity |-> severity, error_message |-> error_message,
     error_type |-> error_type, file_path |-> file_path,
     fingerprint |-> compute_fingerprint(error_type, file_path, error_message)]

\* normalize_github_workflow_run without its test of the action.
normalize_github_workflow_run_any_action(payload) ==
    LET run == dict_get(payload, "workflow_run", <<>>)
        repo == dict_get(payload, "repository", <<>>)
        repo_name == dict_get(repo, "full_name", UNKNOWN)
        workflow_name == dict_get(run, "name", UNKNOWN)
        branch == dict_get(run, "head_branch", UNKNOWN)
    IN  IF dict_get(run, "conclusion", NoneText) # FAILURE THEN <<>>
        ELSE <<NormalizedEvent("github_actions", "error",
                               <<"W", "o", "r", "k", "f", "l", "o", "w", " ", "'">> \o workflow_name \o <<"'", " ", "f", "a", "i", "l", "e", "d", " ", "o", "n", " ">>
                                   \o repo_name \o <<" ", "b", "r", "a", "n", "c", "h", " ">> \o branch,
                               WorkflowFailure, NoneText)>>

\* EventNormalizer.normalize_github_workflow_run: <<>> for None.
normalize_github_workflow_run(payload) ==
    LET run == dict_get(payload, "workflow_run", <<>>)
        repo == dict_get(payload, "repository", <<>>)
        repo_name == dict_get(repo, "full_name", UNKNOWN)
        workflow_name == dict_get(run, "name", UNKNOWN)
        branch == dict_get(run, "head_branch", UNKNOWN)
    IN  IF dict_get(payload, "action", NoneText) # COMPLETED THEN <<>>
        ELSE IF dict_get(run, "conclusion", NoneText) # FAILURE THEN <<>>
        ELSE <<NormalizedEvent("github_actions", "error",
                               <<"W", "o", "r", "k", "f", "l", "o", "w", " ", "'">> \o workflow_name \o <<"'", " ", "f", "a", "i", "l", "e", "d", " ", "o", "n", " ">>
                                   \o repo_name \o <<" ", "b", "r", "a", "n", "c", "h", " ">> \o branch,
                               WorkflowFailure, NoneText)>>

\* EventNormalizer.normalize_github_check_run: <<>> for None.
normalize_github_check_run(payload) ==
    LET check_run == dict_get(payload, "check_run", <<>>)
        conclusion == dict_get(check_run, "conclusion", NoneText)
        name == dict_get(check_run, "name", UNKNOWN)
        output == dict_get(check_run, "output", <<>>)
        summary == dict_get(output, "summary", <<>>)
    IN  IF dict_get(payload, "action", NoneText) # COMPLETED THEN <<>>
        ELSE IF conclusion \notin {FAILURE, TIMED_OUT} THEN <<>>
        ELSE <<NormalizedEvent("github_actions", "error",
                               IF summary \notin {<<>>, NoneText} THEN summary
                               ELSE <<"C", "h", "e", "c", "k", " ", "'">> \o name \o <<"'", " ">> \o conclusion,
                               CheckRunFailure, NoneText)>>

\* EventNormalizer.normalize_cli_report
normalize_cli_report(error_message, error_type, file_path) ==
    NormalizedEvent("local_cli", "error", error_message, error_type, file_path)

\* ------------------------------------------------------------ GitHub webhook
NoWebhook ==
    /\ repositories = {}
    /\ monitors = {}
    /\ response = [status |-> "none"]
    /\ normalized = <<>>
    /\ nHooks = 0

hooked(budget) == nHooks < budget /\ nHooks' = nHooks + 1

\* MonitorService.ingest_event: the event it publishes for the monitor event it adds.
monitor_event_received(repository_id, normalized_event) ==
    [type |-> MONITOR_EVENT_RECEIVED, fingerprint |-> normalized_event.fingerprint,
     repository_id |-> repository_id]

\* POST /webhooks/github with an X-GitHub-Event header and a JSON body; no webhook
\* secret is configured, or the signature has been verified.
github_webhook(x_github_event, payload) ==
    LET event_type == IF x_github_event \in {NoneStr, ""} THEN "unknown" ELSE x_github_event
        produced == CASE event_type = "workflow_run" -> normalize_github_workflow_run(payload)
                      [] event_type = "check_run" -> normalize_github_check_run(payload)
                      [] OTHER -> <<>>
        repo_data == dict_get(payload, "repository", <<>>)
        owner == dict_get(dict_get(repo_data, "owner", <<>>), "login", <<>>)
        repo_name == dict_get(repo_data, "name", <<>>)
        repository_id == <<owner, repo_name>>
    IN  IF produced = <<>>
        THEN /\ response' = [status |-> "ignored", event |-> event_type]
             /\ UNCHANGED <<alertVars, dbVars, repositories, monitors>>
        ELSE /\ nEvents' = nEvents + 1
             /\ process_event(repository_id, produced[1].fingerprint, produced[1].severity,
                              <<monitor_event_received(repository_id, produced[1])>>)
             /\ response' =
                  IF lastCall'.result = "raised" THEN [status |-> "error"]
                  ELSE LET alert == alerts'[lastCall'.alert_id]
                       IN  [status |-> "accepted", alert_id |-> lastCall'.alert_id,
                            alert_status |-> alert.status,
                            occurrence_count |-> alert.occurrence_count,
                            incident_id |-> alert.incident_id,
                            incident_number |->
                                IF alert.incident_id = None THEN None
                                ELSE incidents'[alert.incident_id].incident_number]
             /\ IF lastCall'.result = "raised"
                THEN UNCHANGED <<repositories, monitors>>
                ELSE /\ repositories' = repositories \cup {repository_id}
                     /\ monitors' = monitors \cup {repository_id}
             /\ UNCHANGED <<now, nOps>>

GithubWebhook(x_github_event, payload) ==
    /\ github_webhook(x_github_event, payload)
    /\ UNCHANGED <<lifeVars, pipeVars, analyzerVars, parserVars, raceVars, normalized>>

\* A report normalized for the command line client.
Normalize(error_message, error_type, file_path) ==
    /\ Len(normalized) < MaxNormalized
    /\ normalized' = Append(normalized,
                            normalize_cli_report(error_message, error_type, file_path))
    /\ UNCHANGED <<alertVars, dbVars, lifeVars, pipeVars, analyzerVars, parserVars, raceVars,
                   repositories,
                   monitors, response, nHooks>>


\* ------------------------------------------------------------ specifications
\* The state after the first Critical event of a repository has escalated.
IncidentInit ==
    /\ alerts = <<[create_alert("repo-a", "fp-x", "critical") EXCEPT
                      !.status = "escalated", !.incident_id = 1]>>
    /\ incidents = <<[repository_id |-> "repo-a", incident_number |-> 1, status |-> OPEN,
                      priority |-> ALERT_TO_INCIDENT_PRIORITY("critical"), event_count |-> 1,
                      resolved_at |-> None, alert_id |-> 1]>>
    /\ monitor_events = <<[linked |-> 1, unlinked |-> 0]>>
    /\ timeline = <<[incident_id |-> 1, event_type |-> "incident_created",
                     old_status |-> "none", new_status |-> "none"]>>
    /\ queue = escalation_events(1, 1)
    /\ published = escalation_events(1, 1)
    /\ BusCreated
    /\ TasksCreated
    /\ AnalyzerCreated
    /\ NoWebhook
    /\ ParserCreated
    /\ NoSessions
    /\ now = 1
    /\ nEvents = 1
    /\ nOps = 0
    /\ lastCall = [repository_id |-> "repo-a", fingerprint |-> "fp-x", result |-> "returned",
                   alert_id |-> 1]
    /\ LifeIdle

IncidentNext ==
    \/ \E i \in DOMAIN incidents, t \in IncidentStatus : TransitionStatus(i, t)
    \/ \E i \in DOMAIN incidents : close_incident(i)
    \/ \E i \in DOMAIN incidents : reopen_incident(i)
    \/ \E i \in DOMAIN incidents, p \in {"p0", "p1"} : update_incident(i, p)

\* One incident driven through its lifecycle by the service and the endpoints.
SpecIncident == IncidentInit /\ [][IncidentNext]_vars

LinkedSeverities == {"critical", "info"}

LinkedNext ==
    \/ \E i \in DOMAIN incidents, t \in IncidentStatus : TransitionStatus(i, t)
    \/ \E i \in DOMAIN incidents : close_incident(i)
    \/ \E i \in DOMAIN incidents : reopen_incident(i)
    \/ \E s \in LinkedSeverities : ProcessEvent("repo-a", "fp-x", s, MaxLinkedEvents, 1)

\* An escalated alert that goes on receiving events while its incident moves through
\* its lifecycle.
SpecLinked == IncidentInit /\ [][LinkedNext]_vars

\* A fresh database, the clock at its first reading, no call made yet.
Booted ==
    /\ alerts = <<>>
    /\ incidents = <<>>
    /\ monitor_events = <<>>
    /\ timeline = <<>>
    /\ queue = <<>>
    /\ published = <<>>
    /\ TasksCreated
    /\ NoWebhook
    /\ ParserCreated
    /\ NoSessions
    /\ now = 1
    /\ nEvents = 0
    /\ nOps = 0
    /\ lastCall = [repository_id |-> "none", fingerprint |-> "none", result |-> "none",
                   alert_id |-> None]
    /\ LifeIdle

Startup == Booted /\ AnalyzerCreated

AlertInit == Startup /\ BusCreated

\* lifespan up to its yield: bus, task manager and pipeline built, the loop's task
\* created.
PipelineInit == Startup /\ PipelineWired

AlertNext ==
    \/ \E r \in Repositories, f \in Fingerprints, s \in EventSeverity :
            ProcessEvent(r, f, s, MaxRun, MaxAlerts)
    \/ \E a \in DOMAIN alerts : acknowledge_alert(a)
    \/ \E a \in DOMAIN alerts : suppress_alert(a)
    \/ \E a \in DOMAIN alerts : resolve_alert(a)
    \/ \E a \in DOMAIN alerts, d \in AlertUpdate : update_alert_endpoint(a, d)
    \/ Tick

ThresholdsNext ==
    \E r \in Repositories, f \in Fingerprints, s \in EventSeverity :
        ProcessEvent(r, f, s, MaxEvents, MaxSeries)

Init == AlertInit

\* Runs of process_event alone, long enough for the largest threshold.
SpecThresholds == Init /\ [][ThresholdsNext]_vars

\* process_event interleaved with the alert endpoints and the clock.
SpecAlert == Init /\ [][AlertNext]_vars

\* The kinds of event published from outside in runs of the bus alone.
Kinds == {MONITOR_EVENT_RECEIVED, INCIDENT_UPDATED}

BusNext ==
    \/ \E k \in Kinds, h \in Handlers : called(MaxCalls) /\ subscribe(k, h)
    \/ \E k \in Kinds : called(MaxCalls) /\ publish([type |-> k])
    \/ start
    \/ stop
    \/ LoopTimeout
    \/ LoopGet
    \/ HandlerReturns
    \/ HandlerRaises

\* The bus with subscribers and publishers of its own.
SpecBus == Init /\ [][BusNext]_vars

\* The bus under asyncio's scheduling: a loop that can take an event takes it, and
\* the handler it awaits ends, by returning or by raising.
SpecBusFair ==
    /\ Init
    /\ [][BusNext]_vars
    /\ WF_vars(LoopGet)
    /\ WF_vars(HandlerReturns \/ HandlerRaises)

\* The bus under asyncio's scheduling, its timer included: wait_for returns within
\* its timeout, with an event or without, and the handler the loop awaits ends.
SpecBusStop ==
    /\ Init
    /\ [][BusNext]_vars
    /\ WF_vars(LoopTimeout)
    /\ WF_vars(LoopGet)
    /\ WF_vars(HandlerReturns \/ HandlerRaises)

\* key: value when a value is given, as <<value>>; no entry when <<>> is.
entry(key, given) == IF given = <<>> THEN <<>> ELSE key :> given[1]

GithubRepository(name) ==
    [full_name |-> <<"a", "c", "m", "e", "/">> \o name, name |-> name, owner |-> [login |-> <<"a", "c", "m", "e">>]]

\* The conclusion of a run: no such key, null, or one of GitHub's words.
Conclusions == {<<>>, <<NoneText>>, <<FAILURE>>, <<SUCCESS>>, <<TIMED_OUT>>}

WorkflowRuns ==
    {entry("conclusion", c) @@ [name |-> <<"c", "i">>, head_branch |-> <<"m", "a", "i", "n">>] : c \in Conclusions}

CheckRuns ==
    {entry("conclusion", c) @@ entry("output", o) @@ [name |-> <<"l", "i", "n", "t">>] :
        c \in Conclusions, o \in {<<>>, <<[summary |-> <<"2", " ", "e", "r", "r", "o", "r", "s">>]>>}}

\* The bodies GitHub posts: an action, a workflow run or a check run, a repository;
\* any of the first three may be missing.
GithubPayloads ==
    {entry("action", a) @@ r @@ [repository |-> GithubRepository(n)] :
        a \in {<<>>, <<COMPLETED>>, <<REQUESTED>>},
        r \in {<<>>} \cup {entry("workflow_run", <<w>>) : w \in WorkflowRuns}
                    \cup {entry("check_run", <<k>>) : k \in CheckRuns},
        n \in {<<"a", "p", "i">>, <<"w", "e", "b">>}}

GithubEvents == {NoneStr, "workflow_run", "check_run", "push"}

WebhookNext ==
    \E t \in GithubEvents, p \in GithubPayloads : hooked(MaxHooks) /\ GithubWebhook(t, p)

\* GitHub deliveries handled one after the other.
SpecWebhook == Init /\ [][WebhookNext]_vars

\* A text of n characters c.
repeated(c, n) == [i \in 1..n |-> c]

Messages ==
    {NoneText, <<>>, <<"x">>, <<"y">>, repeated("m", FingerprintMessageChars),
     repeated("m", FingerprintMessageChars) \o <<"x">>,
     repeated("m", FingerprintMessageChars) \o <<"y">>}

ErrorTypes == {NoneText, <<>>, <<"E">>, <<"E", "|">>}

FilePaths == {NoneText, <<>>, <<"a">>, <<"|", "a">>}

NormalizerNext ==
    \E m \in Messages, t \in ErrorTypes, f \in FilePaths : Normalize(m, t, f)

\* Reports normalized one after the other.
SpecNormalizer == Init /\ [][NormalizerNext]_vars

TasksNext ==
    \/ \E t \in JobIds : called(MaxTaskCalls) /\ Submit(t)
    \/ \E u \in DOMAIN units : Acquire(u)
    \/ \E u \in DOMAIN units : Return(u)
    \/ \E u \in DOMAIN units : Raise(u)
    \/ \E t \in JobIds : called(MaxTaskCalls) /\ cancel(t)
    \/ \E u \in DOMAIN units : DeliverCancel(u)

\* The task manager with coroutines of the caller's own.
SpecTasks == Init /\ [][TasksNext]_vars

\* BackgroundTaskManager(max_concurrent=slots)
TasksCreatedWith(slots) ==
    /\ units = <<>>
    /\ tasks = {}
    /\ semaphore = slots
    /\ investigations = {}
    /\ root_causes = {}
    /\ nCalls = 0

\* The application started with a task manager of one slot or more.
FlowInit ==
    /\ alerts = <<>>
    /\ incidents = <<>>
    /\ monitor_events = <<>>
    /\ timeline = <<>>
    /\ queue = <<>>
    /\ published = <<>>
    /\ \E slots \in 1..MaxConcurrent : TasksCreatedWith(slots)
    /\ NoWebhook
    /\ ParserCreated
    /\ NoSessions
    /\ now = 1
    /\ nEvents = 0
    /\ nOps = 0
    /\ lastCall = [repository_id |-> "none", fingerprint |-> "none", result |-> "none",
                   alert_id |-> None]
    /\ LifeIdle
    /\ AnalyzerCreated
    /\ PipelineWired

FlowKeys == {<<"job", 1>>, <<"investigate", 1>>}

\* What callers do: one escalation, one unit of their own, cancel calls.
FlowCalls ==
    \/ ProcessEvent("repo-a", "fp-x", "critical", 1, 1)
    \/ /\ \A u \in DOMAIN units : units[u].origin # "caller"
       /\ called(MaxFlowCalls) /\ Submit(<<"job", 1>>)
    \/ \E t \in FlowKeys : called(MaxFlowCalls) /\ cancel(t)

\* What the bus does.
FlowBus == start \/ LoopGet \/ HandlerReturns

\* A unit goes one step further: it takes a slot, its stage returns or raises, its
\* commit succeeds or fails, its coroutine ends, a cancellation reaches it.
FlowUnit(u) ==
    \/ Acquire(u)
    \/ Return(u)
    \/ Raise(u)
    \/ \E fails \in BOOLEAN : Investigate(u, fails)
    \/ \E fails \in BOOLEAN : Analyze(u, fails)
    \/ \E outcome \in FixOutcomes : GenerateFix(u, outcome)
    \/ \E ok \in BOOLEAN : Commit(u, ok)
    \/ DeliverCancel(u)

FlowNext ==
    \/ FlowCalls
    \/ FlowBus
    \/ \E u \in DOMAIN units : FlowUnit(u)

\* The pipeline, the bus and the task manager under asyncio's scheduling: the loop is
\* started and takes the events there are, the handler it awaits returns, and a unit
\* that can go a step further does.
SpecFlow ==
    /\ FlowInit
    /\ [][FlowNext]_vars
    /\ WF_vars(FlowBus)
    /\ \A u \in 1..MaxUnits : WF_vars(u \in DOMAIN units /\ FlowUnit(u))

\* Events of the pipeline's kinds that lack an id their handler asks for; no
\* publisher of the program builds one.
IncompleteEvents ==
    {[type |-> INCIDENT_CREATED], [type |-> INVESTIGATION_COMPLETED],
     [type |-> RCA_COMPLETED, incident_id |-> 1]}

PipelineNext ==
    \/ \E r \in Repositories :
            ProcessEvent(r, "fp-x", "critical", MaxIncidents, MaxIncidents)
    \/ \E e \in IncompleteEvents : called(MaxTriggers) /\ publish(e)
    \/ start
    \/ LoopGet
    \/ HandlerReturns
    \/ \E u \in DOMAIN units : Acquire(u)
    \/ \E u \in DOMAIN units, fails \in BOOLEAN : Investigate(u, fails)
    \/ \E u \in DOMAIN units, fails \in BOOLEAN : Analyze(u, fails)
    \/ \E u \in DOMAIN units, outcome \in FixOutcomes : GenerateFix(u, outcome)
    \/ \E u \in DOMAIN units, ok \in BOOLEAN : Commit(u, ok)
    \/ \E i \in DOMAIN incidents : called(MaxTriggers) /\ trigger_investigation(i)
    \/ \E i \in DOMAIN incidents : called(MaxTriggers) /\ trigger_healing(i)

\* Escalations feeding the bus, the pipeline and the task manager.
SpecPipeline == PipelineInit /\ [][PipelineNext]_vars

\* The analyzer's lines a run draws from.
FedLines ==
    {TRACEBACK, PYTHON_FRAME_LINE, ERROR_LINE, ERROR_LINE_PADDED, BLANK_LINE, SPACES_LINE,
     FAILED_LINE, LINT_LINE}

\* An analyzer that was fed a header and then code lines, BlockLines lines in all.
InLongBlock ==
    /\ buffer = <<TRACEBACK>> \o [i \in 1..(BlockLines - 1) |-> CODE_LINE]
    /\ in_error_block = TRUE
    /\ blank_line_count = 0
    /\ lastReturn = <<>>
    /\ lastOp = "feed_line"
    /\ discarded = {}
    /\ fed_block = buffer
    /\ nFeeds = 0

AnalyzerInit == Booted /\ BusCreated /\ (AnalyzerCreated \/ InLongBlock)

AnalyzerNext ==
    \/ \E line \in FedLines : fed(MaxFeeds) /\ feed_line(line)
    \/ fed(MaxFeeds) /\ flush
    \/ fed(MaxFeeds) /\ reset

\* One analyzer fed line by line, flushed and reset at any point.
SpecAnalyzer == AnalyzerInit /\ [][AnalyzerNext]_vars

\* The lines classified: of each family, of two families at once, and of none.
ClassifiedLines ==
    {TRACEBACK, PANIC_LINE, START_AND_BUILD_LINE, ERROR_LINE, ERROR_LINE_PADDED, FATAL_LINE,
     ERROR_AND_BUILD_LINE, FAILED_LINE, FAILED_AND_BUILD_LINE, LINT_LINE, INFO_LINE,
     BLANK_LINE}

ClassifierNext ==
    \/ \E line \in ClassifiedLines : fed(MaxClassified) /\ feed_line(line)
    \/ fed(MaxClassified) /\ flush

\* One analyzer fed lines of every family, in and out of blocks.
SpecClassifier == AlertInit /\ [][ClassifierNext]_vars

\* The lines of the texts given to analyze_output.
OutputLines == {TRACEBACK, PYTHON_FRAME_LINE, ERROR_LINE, FAILED_LINE, BLANK_LINE}

\* What text.split("\n") gives: one line at least.
OutputTexts == UNION {[1..n -> OutputLines] : n \in 1..MaxOutputLines}

OutputNext ==
    \/ \E line \in OutputLines \cup {SPACES_LINE} : fed(MaxOutputCalls) /\ feed_line(line)
    \/ fed(MaxOutputCalls) /\ flush
    \/ fed(MaxOutputCalls) /\ reset
    \/ \E text \in OutputTexts : fed(MaxOutputCalls) /\ analyze_output(text)

\* One analyzer fed line by line, flushed, reset and given whole texts, in any order.
SpecOutput == AnalyzerInit /\ [][OutputNext]_vars

BatchLines == {TRACEBACK, ERROR_LINE, BLANK_LINE}

BatchTexts == UNION {[1..n -> BatchLines] : n \in 1..MaxOutputLines}

BatchNext ==
    \/ \E line \in BatchLines : fed(MaxOutputCalls) /\ feed_line(line)
    \/ fed(MaxOutputCalls) /\ flush
    \/ \E text \in BatchTexts : fed(MaxOutputCalls) /\ analyze_output(text)

\* One analyzer fed line by line and flushed, and given whole texts in between.
SpecBatch == AnalyzerInit /\ [][BatchNext]_vars

\* The lines of the texts the parser is given: frames of each dialect, an error line,
\* a line that is no frame, and an empty line.
ParsedLines ==
    {PYTHON_FRAME_LINE, PYTHON_FRAME_LINE_2, JS_FRAME_LINE, GO_FRAME_LINE, JAVA_FRAME_LINE,
     ERROR_LINE, INFO_LINE, BLANK_LINE}

\* text.split("\n") of the texts: "" is one empty line.
Texts == UNION {[1..n -> ParsedLines] : n \in 1..MaxTextLines}

ParserNext == \E text \in Texts : Parse(text)

\* One parser, called on any text, any number of times.
SpecParser == Init /\ [][ParserNext]_vars

HandoffNext ==
    \/ \E session \in Sessions, r \in Repositories :
            BeginProcessEvent(session, r, "fp-x", "critical", MaxIncidents)
    \/ \E session \in Sessions : FindExistingAlert(session)
    \/ \E session \in Sessions : CreateAlert(session)
    \/ \E session \in Sessions : UpdateAlert(session)
    \/ \E session \in Sessions : GetNextIncidentNumber(session)
    \/ \E session \in Sessions : EscalateToIncident(session)
    \/ \E session \in Sessions : CommitRequest(session)
    \/ start
    \/ LoopGet
    \/ HandlerReturns
    \/ \E u \in DOMAIN units : Acquire(u)
    \/ \E u \in DOMAIN units, fails \in BOOLEAN : Investigate(u, fails)
    \/ \E u \in DOMAIN units, fails \in BOOLEAN : Analyze(u, fails)
    \/ \E u \in DOMAIN units, ok \in BOOLEAN : Commit(u, ok)

\* Requests that escalate in their own transaction, the bus loop and the stage units
\* of the pipeline, all interleaved.
SpecHandoff == PipelineInit /\ [][HandoffNext]_vars

MaxOverlapCalls == 2

\* The stage units of one incident and the operator's close, reopen and PATCH
\* requests, each in its own transaction; a stage that finds the row written by an
\* open transaction waits for it.
OverlapNext ==
    \/ \E r \in Repositories : ProcessEvent(r, "fp-x", "critical", 1, 1)
    \/ start
    \/ LoopGet
    \/ HandlerReturns
    \/ \E u \in DOMAIN units : Acquire(u)
    \/ \E u \in DOMAIN units, fails \in BOOLEAN :
            ~row_locked(units[u].incident_id) /\ Investigate(u, fails)
    \/ \E u \in DOMAIN units, fails \in BOOLEAN :
            ~row_locked(units[u].incident_id) /\ Analyze(u, fails)
    \/ \E u \in DOMAIN units, outcome \in FixOutcomes :
            ~row_locked(units[u].incident_id) /\ GenerateFix(u, outcome)
    \/ \E u \in DOMAIN units, ok \in BOOLEAN : Commit(u, ok)
    \/ \E session \in Sessions, i \in DOMAIN incidents :
            RequestValidates(session, "close", i, CLOSED, MaxOverlapCalls)
    \/ \E session \in Sessions, i \in DOMAIN incidents :
            RequestValidates(session, "reopen", i, OPEN, MaxOverlapCalls)
    \/ \E session \in Sessions : RepoUpdate(session)
    \/ \E i \in DOMAIN incidents, p \in {"p0", "p1"} :
            nTransitions < MaxOverlapCalls /\ ~row_locked(i) /\ update_incident(i, p)

SpecOverlap == PipelineInit /\ [][OverlapNext]_vars

\* The severities of the events that race: escalating at once, and on the third.
RaceSeverities == {"critical", "warning"}

RaceNext ==
    \/ \E session \in Sessions, r \in Repositories, f \in Fingerprints, s \in RaceSeverities :
            BeginProcessEvent(session, r, f, s, MaxRaces)
    \/ \E session \in Sessions : FindExistingAlert(session)
    \/ \E session \in Sessions : CreateAlert(session)
    \/ \E session \in Sessions : UpdateAlert(session)
    \/ \E session \in Sessions : GetNextIncidentNumber(session)
    \/ \E session \in Sessions : EscalateToIncident(session)
    \/ \E session \in Sessions : CommitRequest(session)

\* Two requests at a time, each running process_event in its own transaction.
SpecRace == Init /\ [][RaceNext]_vars

\* ------------------------------------------------------------------ claims
\* The threshold table as the specification states it.
StatedThreshold(severity) ==
    CASE severity = "critical" -> 1
      [] severity = "high" -> 1
      [] severity = "medium" -> 3
      [] severity = "low" -> 5
      [] severity = "info" -> 10

\* C1: an alert that only process_event has written is Active with no incident while
\* its occurrence_count is below the threshold of its severity, and from the call on
\* that brings the count to the threshold it is Escalated and linked to an incident
\* that was created at exactly that count.
C1_EscalatesAtThreshold ==
    \A i \in DOMAIN alerts :
        LET a == alerts[i] IN
        ~a.touched =>
            /\ a.auto_escalate
            /\ a.occurrence_count < StatedThreshold(a.severity) =>
                  a.status = "active" /\ a.incident_id = None
            /\ a.occurrence_count >= StatedThreshold(a.severity) =>
                  /\ a.status = "escalated"
                  /\ a.incident_id \in DOMAIN incidents
                  /\ incidents[a.incident_id].event_count = StatedThreshold(a.severity)

\* An Info alert escalated by its tenth event beside an alert escalated by its first.
C1_Witness ==
    /\ \E i \in DOMAIN alerts :
          /\ alerts[i].severity = "info"
          /\ alerts[i].occurrence_count = 10
          /\ alerts[i].status = "escalated"
    /\ \E j \in DOMAIN alerts :
          /\ alerts[j].severity \in {"critical", "high"}
          /\ alerts[j].occurrence_count = 1
          /\ alerts[j].status = "escalated"

\* C2: a process_event for the key of an alert that is linked to an incident (and not
\* Resolved) returns that alert with the same incident id and occurrence_count one
\* higher, and creates no incident.
C2_LinkedAlertReused ==
    [][\A i \in DOMAIN alerts :
          (/\ nEvents' = nEvents + 1
           /\ alerts[i].incident_id # None
           /\ alerts[i].status # "resolved"
           /\ lastCall'.repository_id = alerts[i].repository_id
           /\ lastCall'.fingerprint = alerts[i].fingerprint)
          => /\ lastCall'.result = "returned"
             /\ lastCall'.alert_id = i
             /\ alerts'[i].incident_id = alerts[i].incident_id
             /\ alerts'[i].occurrence_count = alerts[i].occurrence_count + 1
             /\ Len(incidents') = Len(incidents)]_vars

\* C3: at most one alert per (repository, fingerprint) has a status other than Resolved.
C3_OneLiveAlertPerKey ==
    \A i, j \in DOMAIN alerts :
        (/\ alerts[i].repository_id = alerts[j].repository_id
         /\ alerts[i].fingerprint = alerts[j].fingerprint
         /\ alerts[i].status # "resolved"
         /\ alerts[j].status # "resolved")
        => i = j

\* C4: a process_event for the key of an alert that is Suppressed, or that is not
\* Resolved and has auto_escalate off, raises its occurrence_count by one and leaves
\* its status and its incident link as they were.
C4_BlockedAlertOnlyCounts ==
    [][\A i \in DOMAIN alerts :
          (/\ nEvents' = nEvents + 1
           /\ \/ alerts[i].status = "suppressed"
              \/ ~alerts[i].auto_escalate /\ alerts[i].status # "resolved"
           /\ lastCall'.repository_id = alerts[i].repository_id
           /\ lastCall'.fingerprint = alerts[i].fingerprint)
          => /\ alerts'[i].occurrence_count = alerts[i].occurrence_count + 1
             /\ alerts'[i].status = alerts[i].status
             /\ alerts'[i].incident_id = alerts[i].incident_id]_vars

StatedTransitions ==
    {<<OPEN, INVESTIGATING>>, <<OPEN, WONT_FIX>>, <<OPEN, CLOSED>>,
     <<INVESTIGATING, ROOT_CAUSE_IDENTIFIED>>, <<INVESTIGATING, OPEN>>,
     <<INVESTIGATING, WONT_FIX>>,
     <<ROOT_CAUSE_IDENTIFIED, FIX_IN_PROGRESS>>, <<ROOT_CAUSE_IDENTIFIED, WONT_FIX>>,
     <<FIX_IN_PROGRESS, FIX_PENDING_REVIEW>>, <<FIX_IN_PROGRESS, ROOT_CAUSE_IDENTIFIED>>,
     <<FIX_PENDING_REVIEW, FIX_MERGED>>, <<FIX_PENDING_REVIEW, FIX_IN_PROGRESS>>,
     <<FIX_MERGED, VERIFYING>>,
     <<VERIFYING, RESOLVED>>, <<VERIFYING, FIX_IN_PROGRESS>>,
     <<RESOLVED, CLOSED>>, <<RESOLVED, OPEN>>,
     <<CLOSED, OPEN>>,
     <<WONT_FIX, OPEN>>}

\* C5: a transition_status, close or reopen call from status c to target t succeeds,
\* leaving the incident in t, exactly when (c, t) is in the stated table; otherwise it
\* raises InvalidStateTransitionError(c, t) and the incident, the timeline and the
\* published events are as before.
C5_TransitionTableClosure ==
    [][(nTransitions' = nTransitions + 1 /\ lastTransition'.op # "update") =>
          LET id == lastTransition'.incident_id
              c == incidents[id].status
              t == lastTransition'.target
          IN  IF <<c, t>> \in StatedTransitions
              THEN /\ lastTransition'.result = "ok"
                   /\ incidents'[id].status = t
              ELSE /\ lastTransition'.result = "raised"
                   /\ lastTransition'.error = [current_status |-> c, target_status |-> t]
                   /\ incidents' = incidents
                   /\ timeline' = timeline
                   /\ queue' = queue]_vars

\* A Resolved incident, reached through seven transitions, has just refused a target.
C5_Witness ==
    /\ lastTransition.result = "raised"
    /\ lastTransition.error = [current_status |-> RESOLVED, target_status |-> INVESTIGATING]
    /\ incidents[1].status = RESOLVED
    /\ incidents[1].resolved_at # None

\* The units whose work is executing.
Executing == {u \in DOMAIN units : units[u].state \in Holding}

\* C7: at every moment, whatever the submissions, completions, failures and
\* cancellations so far, at most max_concurrent units are executing, and each
\* executing unit holds one of the max_concurrent slots: the slots left are
\* max_concurrent minus the units executing.
C7_BoundedConcurrency ==
    /\ Cardinality(Executing) <= max_concurrent
    /\ semaphore = max_concurrent - Cardinality(Executing)

\* Every slot is taken while another unit waits, after a unit has failed and given
\* its slot back.
C7_Witness ==
    /\ Cardinality(Executing) = max_concurrent
    /\ \E u \in DOMAIN units : units[u].state = "pending"
    /\ \E u \in DOMAIN units : units[u].state = "failed"

\* The handlers the loop has called for the n-th event it took, in call order.
handlers_called(n) ==
    LET of_event == SelectSeq(calls, LAMBDA c : c.event_no = n)
    IN  [k \in DOMAIN of_event |-> of_event[k].handler]

\* C8: the n-th event the loop takes is the n-th event published; for an event it has
\* finished, the loop called exactly the handlers subscribed to its kind, in
\* subscription order, and each call is over; only the latest call can be under way,
\* and only for the event the loop is on; the calls of an event all come before the
\* calls of the next.
C8_SequentialDispatch ==
    /\ \A n \in DOMAIN dispatched :
          /\ dispatched[n].event = published[n]
          /\ handlers_called(n) = dispatched[n].subscribed
    /\ \A k \in DOMAIN calls :
          /\ calls[k].state = "started" =>
                /\ k = Len(calls)
                /\ loop.pc = "in_handler"
                /\ calls[k].event_no = Len(dispatched) + 1
          /\ \A j \in 1..(k - 1) : calls[j].event_no <= calls[k].event_no
    /\ loop.pc = "in_handler" =>
          /\ loop.event = published[Len(dispatched) + 1]
          /\ calls[Len(calls)].state = "started"
          /\ handlers_called(Len(dispatched) + 1)
                = SubSeq(handlers[loop.event.type], 1, loop.idx)

\* Two events of different kinds are done, one of them through two handlers
\* subscribed in the order h2, h1.
C8_Witness ==
    /\ Len(dispatched) = 2
    /\ dispatched[1].event # dispatched[2].event
    /\ \E n \in DOMAIN dispatched : dispatched[n].subscribed = <<"h2", "h1">>

\* The event that hands an incident to the stage after this one.
NextStageEvent(kind) ==
    CASE kind = "investigate" -> INVESTIGATION_COMPLETED
      [] kind = "rca" -> RCA_COMPLETED
      [] OTHER -> "none"

\* The kinds of event a unit has put on the bus.
published_types(u) == {units[u].published[k].type : k \in DOMAIN units[u].published}

\* The unit whose stage published the event a pipeline unit was submitted for.
publisher(u) ==
    LET event == published[units[u].cause] IN
    CASE event.type = INVESTIGATION_COMPLETED -> get(event, "investigation_id")
      [] event.type = RCA_COMPLETED -> get(event, "root_cause_id")
      [] OTHER -> None

\* C9: a stage unit of the pipeline that ended by rolling back has published no
\* next-stage event, and the pipeline submitted no unit of a later stage for an event
\* published by a unit that ended by rolling back.
C9_NextStageOnlyOnSuccess ==
    /\ \A u \in DOMAIN units :
          (units[u].origin = "pipeline" /\ units[u].tx = "rolled_back") =>
              NextStageEvent(units[u].kind) \notin published_types(u)
    /\ \A v \in DOMAIN units :
          (units[v].origin = "pipeline" /\ publisher(v) # None) =>
              units[publisher(v)].tx # "rolled_back"

\* The units the pipeline submitted for the n-th event.
units_caused(n) ==
    {u \in DOMAIN units : units[u].origin = "pipeline" /\ units[u].cause = n}

\* What the wiring is stated to submit for an event.
StatedUnits(event) ==
    LET incident_id == get(event, "incident_id")
        root_cause_id == get(event, "root_cause_id")
    IN  CASE event.type = INCIDENT_CREATED /\ incident_id # None ->
                {[kind |-> "investigate", incident_id |-> incident_id,
                  root_cause_id |-> None]}
          [] event.type = INVESTIGATION_COMPLETED /\ incident_id # None ->
                {[kind |-> "rca", incident_id |-> incident_id, root_cause_id |-> None]}
          [] event.type = RCA_COMPLETED /\ incident_id # None /\ root_cause_id # None ->
                {[kind |-> "heal", incident_id |-> incident_id,
                  root_cause_id |-> root_cause_id]}
          [] OTHER -> {}

\* C10: for every event the loop has finished, the pipeline submitted exactly the
\* one unit stated for it (none for an event lacking a required id); a root-cause
\* unit of the pipeline comes after an investigate unit of its incident that
\* published InvestigationCompleted, a generate-fix unit of the pipeline after a
\* root-cause unit of its incident that published RootCauseCompleted.
C10_OneUnitPerEvent ==
    /\ \A n \in DOMAIN dispatched :
          /\ Cardinality(units_caused(n)) = Cardinality(StatedUnits(dispatched[n].event))
          /\ {[kind |-> units[u].kind, incident_id |-> units[u].incident_id,
               root_cause_id |-> units[u].root_cause_id] : u \in units_caused(n)}
                = StatedUnits(dispatched[n].event)
    /\ \A u \in DOMAIN units :
          units[u].origin = "pipeline" =>
              /\ units[u].cause \in 1..(Len(dispatched) + 1)
              /\ units[u].kind = "rca" =>
                    \E v \in 1..(u - 1) :
                        /\ units[v].kind = "investigate"
                        /\ units[v].incident_id = units[u].incident_id
                        /\ INVESTIGATION_COMPLETED \in published_types(v)
              /\ units[u].kind = "heal" =>
                    \E v \in 1..(u - 1) :
                        /\ units[v].kind = "rca"
                        /\ units[v].incident_id = units[u].incident_id
                        /\ RCA_COMPLETED \in published_types(v)

\* The pipeline has taken an incident as far as a generate-fix unit, and an event
\* lacking its ids has gone through the loop.
C10_Witness ==
    /\ \E u \in DOMAIN units : units[u].origin = "pipeline" /\ units[u].kind = "heal"
    /\ \E n \in DOMAIN dispatched : dispatched[n].event \in IncompleteEvents

\* The incident numbers a repository has used.
numbers_of(repository_id) ==
    {incidents[k].incident_number :
        k \in {j \in DOMAIN incidents : incidents[j].repository_id = repository_id}}

\* C11: a process_event for the key of an alert that has been set to Resolved, and
\* that is the newest alert of its key, leaves that alert as it was and creates a new
\* alert with occurrence_count 1 whose incident link is not inherited: it is empty
\* when the threshold of its severity is above 1, and with a threshold of 1 the new
\* alert is Escalated to a new incident that carries the repository's next number.
C11_RecurrenceStartsFresh ==
    [][\A i \in DOMAIN alerts :
          (/\ nEvents' = nEvents + 1
           /\ alerts[i].resolved_once
           /\ \A j \in DOMAIN alerts :
                 (/\ alerts[j].repository_id = alerts[i].repository_id
                  /\ alerts[j].fingerprint = alerts[i].fingerprint) => j <= i
           /\ lastCall'.repository_id = alerts[i].repository_id
           /\ lastCall'.fingerprint = alerts[i].fingerprint)
          => /\ alerts'[i] = alerts[i]
             /\ Len(alerts') = Len(alerts) + 1
             /\ lastCall'.alert_id = Len(alerts')
             /\ LET new == alerts'[Len(alerts')] IN
                   /\ new.occurrence_count = 1
                   /\ IF StatedThreshold(new.severity) = 1
                      THEN /\ new.status = "escalated"
                           /\ Len(incidents') = Len(incidents) + 1
                           /\ new.incident_id = Len(incidents')
                           /\ \A n \in numbers_of(new.repository_id) :
                                 incidents'[new.incident_id].incident_number > n
                           /\ incidents'[new.incident_id].incident_number
                                 = Cardinality(numbers_of(new.repository_id)) + 1
                      ELSE /\ new.status = "active"
                           /\ new.incident_id = None
                           /\ Len(incidents') = Len(incidents)]_vars

\* C12: a step that changes the status of an incident, through transition_status,
\* close or reopen, appends exactly one timeline entry, a status change of that
\* incident recording the old and the new status.
C12_StatusChangeOnTimeline ==
    [][\A i \in DOMAIN incidents :
          incidents'[i].status # incidents[i].status =>
              timeline' = Append(timeline,
                                 timeline_entry(i, incidents[i].status,
                                                incidents'[i].status))]_vars

\* C13: the i-th incident created for a repository carries the number i: numbers
\* start at 1, grow in creation order, are never used twice within a repository, and
\* the incidents of other repositories do not count.
C13_SequenceNumbers ==
    \A i \in DOMAIN incidents :
        /\ incidents[i].incident_number =
              Cardinality({j \in 1..i :
                              incidents[j].repository_id = incidents[i].repository_id})
        /\ \A j \in 1..(i - 1) :
              incidents[j].repository_id = incidents[i].repository_id =>
                  incidents[j].incident_number < incidents[i].incident_number

\* A repository has its second incident.
C13_Witness ==
    \E i, j \in DOMAIN incidents :
        /\ i < j
        /\ incidents[i].repository_id = incidents[j].repository_id
        /\ incidents[j].incident_number = 2

\* C14: a step that creates an incident gives it the occurrence_count of the
\* escalating alert as its event_count, and leaves every monitor event attached to
\* that alert, one per occurrence, linked to the new incident.
C14_EscalationCarriesEvents ==
    [][Len(incidents') = Len(incidents) + 1 =>
          LET incident == incidents'[Len(incidents')]
              a == incident.alert_id
          IN  /\ alerts'[a].incident_id = Len(incidents')
              /\ incident.event_count = alerts'[a].occurrence_count
              /\ monitor_events'[a].unlinked = 0
              /\ monitor_events'[a].linked = alerts'[a].occurrence_count]_vars

\* Three warning-level events have escalated on the third: the incident counts 3
\* events and the alert's three monitor events are linked.
C14_Witness ==
    \E i \in DOMAIN incidents :
        /\ incidents[i].event_count = 3
        /\ alerts[incidents[i].alert_id].severity = "medium"
        /\ alerts[incidents[i].alert_id].occurrence_count = 3
        /\ monitor_events[incidents[i].alert_id] = [linked |-> 3, unlinked |-> 0]

\* ------------------------------------------------------------ C15
\* A block as its stacktrace holds it: every line without its trailing whitespace.
stripped_lines(block) == [i \in DOMAIN block |-> rstrip(block[i])]

\* The latest call returned one DetectedError whose stacktrace is this block.
emitted_block(block) ==
    /\ Len(lastReturn') = 1
    /\ lastReturn'[1].stacktrace = <<stripped_lines(block)>>
    /\ ~in_error_block'
    /\ buffer' = <<>>

\* C15 as stated: a header and every body line that matches no single-line error
\* pattern emit nothing, and the line that matches one emits one DetectedError whose
\* stacktrace is the whole block in the order fed, leaving the analyzer in NORMAL with
\* an empty buffer.
C15_BlockEndsOnErrorLine ==
    [][\A line \in Lines : feed_line(line) =>
          /\ (fed_block = <<>> /\ ERROR_START_PATTERNS(rstrip(line))) => lastReturn' = <<>>
          /\ (fed_block # <<>> /\ SINGLE_LINE_ERRORS(rstrip(line)) = <<>>)
                => lastReturn' = <<>>
          /\ (fed_block # <<>> /\ SINGLE_LINE_ERRORS(rstrip(line)) # <<>>)
                => emitted_block(Append(fed_block, line))]_vars

\* A body line that keeps the block open: not the second of two blank lines in a row,
\* and not a non-blank line that brings the block to MAX_BUFFER_LINES lines.
keeps_block_open(line) ==
    /\ ~(rstrip(line) = "" /\ rstrip(fed_block[Len(fed_block)]) = "")
    /\ rstrip(line) = "" \/ Len(fed_block) + 1 < MAX_BUFFER_LINES

\* C15, amended: a header, and every body line that matches no single-line error
\* pattern, is not the second of two consecutive blank lines and leaves the block
\* shorter than 50 lines, emit nothing; the line that matches a single-line error
\* pattern then emits one DetectedError whose stacktrace is the whole block, each line
\* without its trailing whitespace, in the order fed, and leaves the analyzer in NORMAL
\* with an empty buffer.
C15_BlockEndsOnErrorLineWhileOpen ==
    [][\A line \in Lines : feed_line(line) =>
          /\ (fed_block = <<>> /\ ERROR_START_PATTERNS(rstrip(line))) => lastReturn' = <<>>
          /\ (/\ fed_block # <<>>
              /\ SINGLE_LINE_ERRORS(rstrip(line)) = <<>>
              /\ keeps_block_open(line))
                => lastReturn' = <<>> /\ fed_block' = Append(fed_block, line)
          /\ (fed_block # <<>> /\ SINGLE_LINE_ERRORS(rstrip(line)) # <<>>)
                => emitted_block(Append(fed_block, line))]_vars

\* A traceback with a frame line and a blank line has just ended on its error line.
C15_Witness ==
    /\ lastOp = "feed_line"
    /\ Len(lastReturn) = 1
    /\ lastReturn[1].stacktrace = <<<<TRACEBACK, PYTHON_FRAME_LINE, "", ERROR_LINE>>>>
    /\ lastReturn[1].error_type = "RuntimeError"
    /\ buffer = <<>>
    /\ ~in_error_block

\* ------------------------------------------------------------ C16
stacktrace_lines(e) ==
    IF e.stacktrace = <<>> THEN {} ELSE {e.stacktrace[1][i] : i \in DOMAIN e.stacktrace[1]}

\* The lines of the stacktraces a call returned.
returned_lines(ret) == UNION {stacktrace_lines(ret[k]) : k \in DOMAIN ret}

\* C16: flush() returns one DetectedError, holding the pending block, when a block is
\* pending and nothing otherwise, so nothing when it follows a flush(); reset() returns
\* nothing and leaves no block pending, so a flush() that follows it returns nothing; and
\* no DetectedError returned later holds a line that reset() discarded.
C16_FlushEmitsOnceResetDiscards ==
    [][/\ flush =>
            /\ IF fed_block # <<>>
               THEN /\ Len(lastReturn') = 1
                    /\ lastReturn'[1].stacktrace = <<stripped_lines(fed_block)>>
               ELSE lastReturn' = <<>>
            /\ lastOp \in {"flush", "reset"} => lastReturn' = <<>>
            /\ fed_block' = <<>> /\ buffer' = <<>>
       /\ reset => lastReturn' = <<>> /\ buffer' = <<>> /\ ~in_error_block'
       /\ returned_lines(lastReturn') \cap discarded' = {}]_vars

\* reset() discarded a block with a frame line, and a later flush() returned a block.
C16_Witness ==
    /\ lastOp = "flush"
    /\ Len(lastReturn) = 1
    /\ PYTHON_FRAME_LINE \in discarded
    /\ returned_lines(lastReturn) # {}

\* ------------------------------------------------------------ C17
\* A handler call has raised.
some_raised == \E k \in DOMAIN calls : calls[k].state = "raised"

\* C17: when a handler raises, the loop goes on where a return would have put it: it
\* calls the next handler subscribed to the kind of the same event, or, after the last
\* one, tests _running and waits for the next event; every event the loop has finished
\* had all the handlers of its kind called in subscription order, whichever of them
\* raised; and every event published, before or after a raise, is dispatched in the end
\* unless stop() ends the loop.
C17_RaiseDoesNotStopLoop ==
    /\ [][HandlerRaises =>
            LET hs == handlers[loop.event.type]
            IN  /\ running' = running
                /\ IF loop.idx < Len(hs)
                   THEN /\ loop' = [pc |-> "in_handler", event |-> loop.event,
                                    idx |-> loop.idx + 1]
                        /\ calls'[Len(calls')] = [event_no |-> Len(dispatched) + 1,
                                                  handler |-> hs[loop.idx + 1],
                                                  state |-> "started"]
                   ELSE /\ loop' = LoopAt(IF running THEN "waiting" ELSE "stopped")
                        /\ LET of_event == SelectSeq(calls', LAMBDA c :
                                                c.event_no = Len(dispatched'))
                           IN  [k \in DOMAIN of_event |-> of_event[k].handler] = hs]_vars
    /\ []((some_raised /\ loop.pc = "stopped") => ~running)
    /\ \A n \in 1..MaxCalls :
          (some_raised /\ Len(published) >= n)
              ~> (loop.pc = "stopped" \/ (/\ Len(dispatched) >= n
                                          /\ dispatched[n].event = published[n]
                                          /\ handlers_called(n) = dispatched[n].subscribed))

\* A handler raised on the first event, the handler subscribed after it was called for
\* that event all the same, and a second event was dispatched after that.
C17_Witness ==
    /\ Len(dispatched) = 2
    /\ \E k \in DOMAIN calls :
          /\ calls[k].event_no = 1
          /\ calls[k].state = "raised"
          /\ k + 1 \in DOMAIN calls
          /\ calls[k + 1].event_no = 1
          /\ calls[k + 1].state = "returned"
    /\ \E k \in DOMAIN calls : calls[k].event_no = 2

\* ------------------------------------------------------------ C18
\* The units submitted under a key, and the latest of them.
submitted(task_id) == {u \in DOMAIN units : units[u].task_id = task_id}

latest(task_id) == units[CHOOSE u \in submitted(task_id) : \A o \in submitted(task_id) : o <= u]

\* C18: get_status never raises; it answers None for a key never submitted, "running"
\* while the latest work submitted under the key has not finished, waiting for a slot
\* included, "completed" when it returned, and "failed" when it raised or was
\* cancelled.
C18_StatusAnswers ==
    \A task_id \in JobIds \cup {<<"job", 0>>} :
        /\ get_status(task_id).raised = "none"
        /\ get_status(task_id).value =
              IF submitted(task_id) = {} THEN "None"
              ELSE CASE latest(task_id).state \in Unfinished -> "running"
                     [] latest(task_id).state = "done" -> "completed"
                     [] latest(task_id).state \in {"failed", "cancelled"} -> "failed"

\* ------------------------------------------------------------ C19
\* The conclusion a payload gives for its run, under the key of that kind of run.
conclusion_of(payload, key) ==
    dict_get(dict_get(payload, key, <<>>), "conclusion", NoneText)

is_completed(payload) == dict_get(payload, "action", NoneText) = COMPLETED

\* C19: a workflow-run payload is normalized exactly when its action is completed and
\* its conclusion is failure, a check-run payload only when its conclusion is failure
\* or timed_out; a delivery for which nothing is normalized is answered "ignored" and
\* leaves the repositories, monitors, monitor events, alerts, incidents, timeline and
\* bus as they were, and every other delivery is accepted.
C19_IgnoredUnlessFailure ==
    [][\A t \in GithubEvents, p \in GithubPayloads : GithubWebhook(t, p) =>
          LET workflow == is_completed(p) /\ conclusion_of(p, "workflow_run") = FAILURE
              check == conclusion_of(p, "check_run") \in {FAILURE, TIMED_OUT}
              nothing == /\ t = "workflow_run" => ~workflow
                         /\ t = "check_run" => normalize_github_check_run(p) = <<>>
          IN  /\ normalize_github_workflow_run(p) # <<>> <=> workflow
              /\ normalize_github_check_run(p) # <<>> => check
              /\ nothing =>
                    /\ response' = [status |-> "ignored",
                                    event |-> IF t = NoneStr THEN "unknown" ELSE t]
                    /\ UNCHANGED <<alerts, monitor_events, incidents, timeline, queue,
                                   published, repositories, monitors>>
              /\ ~nothing =>
                    /\ response'.status = "accepted"
                    /\ Len(published') > Len(published)]_vars

\* A failed workflow run was accepted and escalated, and the delivery after it, a
\* workflow run with nothing to report, was ignored.
C19_Witness ==
    /\ response = [status |-> "ignored", event |-> "workflow_run"]
    /\ Len(alerts) = 1
    /\ Len(incidents) = 1
    /\ Len(published) = 2
    /\ nHooks = 2

\* ------------------------------------------------------------ C20
\* In how many of error_type, file_path and message two triples differ.
differences(a, b) ==
    Cardinality({k \in 1..3 : a[k] # b[k]})

given(e) == <<e.error_type, e.file_path, e.error_message>>

\* A triple as the fingerprint takes it in: a missing component as an empty one, the
\* message by its first 200 characters.
taken_in(e) ==
    <<or_empty(e.error_type), or_empty(e.file_path),
      prefix(or_empty(e.error_message), FingerprintMessageChars)>>

\* C20 as stated: events built from equal (error_type, file_path, message) have equal
\* fingerprints, and events whose triples differ in exactly one component have
\* different fingerprints.
C20_FingerprintSensitive ==
    \A i, j \in DOMAIN normalized :
        /\ differences(given(normalized[i]), given(normalized[j])) = 0
              => normalized[i].fingerprint = normalized[j].fingerprint
        /\ differences(given(normalized[i]), given(normalized[j])) = 1
              => normalized[i].fingerprint # normalized[j].fingerprint

\* C20, amended: equal triples have equal fingerprints, and triples that differ in
\* exactly one component, a missing component counting as an empty one and a message
\* by its first 200 characters, have different fingerprints.
C20_FingerprintSensitiveToWhatItTakesIn ==
    \A i, j \in DOMAIN normalized :
        /\ differences(given(normalized[i]), given(normalized[j])) = 0
              => normalized[i].fingerprint = normalized[j].fingerprint
        /\ differences(taken_in(normalized[i]), taken_in(normalized[j])) = 1
              => normalized[i].fingerprint # normalized[j].fingerprint

\* Two reports that differ in their file path alone, with a message longer than what
\* the fingerprint takes in, got different fingerprints.
C20_Witness ==
    /\ Len(normalized) = 2
    /\ differences(taken_in(normalized[1]), taken_in(normalized[2])) = 1
    /\ normalized[1].file_path # normalized[2].file_path
    /\ Len(normalized[1].error_message) > FingerprintMessageChars
    /\ normalized[1].fingerprint # normalized[2].fingerprint

\* The lines of a text in which a dialect's frame pattern matches.
frame_lines(dialect, text) == SelectSeq(text, LAMBDA line : frame_matches(dialect, line) # <<>>)

\* C21: parse tries python, javascript, go, java in this order and returns the frames and
\* the language of the first dialect whose frame pattern matches in the text, the frames
\* in the order of the text; a text in which no dialect matches, and the empty text,
\* give no frames and no language.
C21_FirstDialectFramesInOrder ==
    LET matching == {d \in DOMAIN Dialects : frame_lines(Dialects[d], parsed_text) # <<>>}
    IN  /\ matching = {} => parse_result.frames = <<>> /\ parse_result.language = NoneStr
        /\ \A d \in matching :
              (\A earlier \in 1..(d - 1) : earlier \notin matching)
                  => /\ parse_result.language = Dialects[d]
                     /\ LET found == frame_lines(Dialects[d], parsed_text)
                        IN  parse_result.frames = [k \in DOMAIN found |->
                                                frame_matches(Dialects[d], found[k])[1]]

\* A text with a java frame between two python frames was parsed: python, tried first,
\* gave its two frames in the order of the text.
C21_Witness ==
    /\ parsed_text = <<PYTHON_FRAME_LINE_2, JAVA_FRAME_LINE, PYTHON_FRAME_LINE>>
    /\ parse_result.language = "python"
    /\ Len(parse_result.frames) = 2
    /\ parse_result.frames[1].file_path = "util.py"

\* ------------------------------------------------------------ C22
\* C22: among the committed rows there is at most one alert that is not Resolved per
\* (repository, fingerprint), at most one incident per escalated alert, and no two
\* incidents of one repository with the same number, however two process_event calls
\* interleave.
C22_RaceKeepsOneAlertOneIncident ==
    LET A == committed("alerts", DOMAIN alerts)
        I == committed("incidents", DOMAIN incidents)
    IN  /\ \A a, b \in A :
              /\ a # b
              /\ alerts[a].repository_id = alerts[b].repository_id
              /\ alerts[a].fingerprint = alerts[b].fingerprint
              => alerts[a].status = "resolved" \/ alerts[b].status = "resolved"
        /\ \A i, j \in I :
              i # j => /\ incidents[i].alert_id # incidents[j].alert_id
                       /\ incidents[i].repository_id = incidents[j].repository_id
                            => incidents[i].incident_number # incidents[j].incident_number

\* ------------------------------------------------------------ C23
\* C23: a stage unit of the pipeline that is about to read finds what the event that
\* caused it announced: an investigate unit the committed incident, a root-cause unit
\* the committed investigation of its incident.
C23_StageFindsWhatWasAnnounced ==
    \A u \in DOMAIN units :
        (units[u].origin = "pipeline" /\ units[u].state = "running") =>
            /\ units[u].kind = "investigate" =>
                  units[u].incident_id \in committed("incidents", DOMAIN incidents)
            /\ units[u].kind = "rca" =>
                  \E v \in investigations : v.incident_id = units[u].incident_id

\* ------------------------------------------------------------ C24
\* The status changes a committing unit made in its transaction, one after another,
\* lead from one status to another along pairs of the transition table.
validated_chain(entries, from, to) ==
    /\ entries # <<>>
    /\ entries[1].old_status = from
    /\ entries[Len(entries)].new_status = to
    /\ \A k \in DOMAIN entries :
          /\ validate_transition(entries[k].old_status, entries[k].new_status)
          /\ k > 1 => entries[k].old_status = entries[k - 1].new_status

\* C24: whatever close, reopen, PATCH and the stages do to an incident, every change
\* of its status is a pair of the transition table (a stage that changes the status
\* twice in its transaction commits two such pairs in a row).
C24_StatusChangesFollowTable ==
    [][\A i \in DOMAIN incidents :
          LET old == incidents[i].status
              new == incidents'[i].status
          IN  new # old =>
                \/ validate_transition(old, new)
                \/ \E u \in DOMAIN units :
                      /\ units[u].state = "flushed"
                      /\ units'[u].tx = "committed"
                      /\ units[u].incident_id = i
                      /\ validated_chain(units[u].writes.timeline, old, new)]_vars

\* ------------------------------------------------------------ C25
\* The buffer goes on as it was, with or without one more line.
buffer_extended ==
    Len(buffer') >= Len(buffer) /\ SubSeq(buffer', 1, Len(buffer)) = buffer

\* C25: the pending buffer always holds fewer than 50 lines, no returned stacktrace has
\* more than 50 lines, and lines leave the buffer only in the stacktrace of the one
\* DetectedError then returned, or by reset().
C25_BufferBelowCap ==
    /\ [](/\ Len(buffer) < MAX_BUFFER_LINES
          /\ \A k \in DOMAIN lastReturn :
                lastReturn[k].stacktrace # <<>> =>
                    Len(lastReturn[k].stacktrace[1]) <= MAX_BUFFER_LINES)
    /\ [][(buffer # <<>> /\ ~buffer_extended) =>
            /\ buffer' = <<>>
            /\ \/ lastOp' = "reset" /\ lastReturn' = <<>>
               \/ /\ lastOp' # "reset"
                  /\ Len(lastReturn') = 1
                  /\ LET block == lastReturn'[1].stacktrace[1]
                     IN  /\ Len(block) \in {Len(buffer), Len(buffer) + 1}
                         /\ SubSeq(block, 1, Len(buffer)) = buffer]_vars

\* ------------------------------------------------------------ C26
\* The line fed before this one, in the same block, was blank.
after_blank == rstrip(fed_block[Len(fed_block)]) = ""

\* The latest call returned one DetectedError holding these lines and left NORMAL.
flushed_block(block) ==
    /\ Len(lastReturn') = 1
    /\ lastReturn'[1].stacktrace = <<block>>
    /\ ~in_error_block'
    /\ buffer' = <<>>
    /\ blank_line_count' = 0

\* C26: in a block, a blank line that follows a non-blank one returns nothing and is
\* buffered, the block going on; a non-blank line that follows it sets the blank
\* counter to 0 and joins the same block; a blank line that follows a blank one
\* returns one DetectedError holding the block and leaves the analyzer in NORMAL.
C26_SecondBlankEndsBlock ==
    [][\A line \in FedLines :
          (in_error_block /\ feed_line(line)) =>
              IF rstrip(line) # ""
              THEN /\ blank_line_count' = 0
                   /\ \/ /\ buffer' = Append(buffer, rstrip(line))
                         /\ in_error_block'
                         /\ lastReturn' = <<>>
                      \/ flushed_block(Append(buffer, rstrip(line)))
              ELSE IF after_blank
              THEN flushed_block(buffer)
              ELSE /\ lastReturn' = <<>>
                   /\ in_error_block'
                   /\ buffer' = Append(buffer, "")
                   /\ blank_line_count' = 1]_vars

\* A block was returned that ended on the second of two blank lines and holds an
\* earlier single blank line with a non-blank line after it.
C26_Witness ==
    /\ lastOp = "feed_line"
    /\ Len(lastReturn) = 1
    /\ lastReturn[1].stacktrace # <<>>
    /\ LET block == lastReturn[1].stacktrace[1]
       IN  /\ block[Len(block)] = ""
           /\ \E j \in 2..(Len(block) - 2) : block[j] = "" /\ block[j + 1] # ""

\* ------------------------------------------------------------ C27
\* C27: outside a block, a line of the block-start family returns nothing and opens a
\* block whose buffer is the line alone; otherwise a line of the single-line family
\* returns one DetectedError of severity error and of the captured type; otherwise a
\* line of the test family returns one TestFailure of severity error; otherwise a line
\* of the build family returns one BuildError of severity warning; any other line
\* returns nothing; in the last four cases no block is open and the buffer is empty.
C27_FirstFamilyClassifies ==
    [][\A line \in ClassifiedLines :
          (~in_error_block /\ feed_line(line)) =>
              LET stripped == rstrip(line)
                  one(error_type, severity) ==
                      /\ Len(lastReturn') = 1
                      /\ lastReturn'[1].error_type = error_type
                      /\ lastReturn'[1].severity = severity
                      /\ lastReturn'[1].stacktrace = <<>>
              IN  IF ERROR_START_PATTERNS(stripped)
                  THEN /\ lastReturn' = <<>>
                       /\ in_error_block'
                       /\ buffer' = <<stripped>>
                  ELSE /\ ~in_error_block'
                       /\ buffer = <<>> /\ buffer' = <<>>
                       /\ IF SINGLE_LINE_ERRORS(stripped) # <<>>
                          THEN one(SINGLE_LINE_ERRORS(stripped)[1], "error")
                          ELSE IF TEST_FAILURE_PATTERNS(stripped)
                          THEN one("TestFailure", "error")
                          ELSE IF BUILD_FAILURE_PATTERNS(stripped) # <<>>
                          THEN one("BuildError", "warning")
                          ELSE lastReturn' = <<>>]_vars

\* The third line fed was classified outside a block: it is of the single-line family
\* and the build patterns match it too.
C27_Witness ==
    /\ lastOp = "feed_line"
    /\ nFeeds = MaxClassified
    /\ ~in_error_block
    /\ Len(lastReturn) = 1
    /\ lastReturn[1].error_type = "ValueError"
    /\ lastReturn[1].message = ERROR_AND_BUILD_LINE

\* ------------------------------------------------------------ C28
\* What analyze_output leaves and returns is what reset, a feed_line call for each line
\* and flush leave and return, one after the other.
feed_line_in_loop ==
    [][\A line \in Lines :
          feed_line(line) =>
              LET a == fed_in_loop([buffer |-> buffer, in_error_block |-> in_error_block,
                                    blank_line_count |-> blank_line_count,
                                    errors |-> <<>>], line)
              IN  /\ buffer' = a.buffer
                  /\ in_error_block' = a.in_error_block
                  /\ blank_line_count' = a.blank_line_count
                  /\ lastReturn' = a.errors]_vars

\* C28: after any sequence of feed_line, flush, reset and analyze_output calls, a block
\* is open if and only if the buffer holds a line; the first buffered line is a
\* block-start line; the blank counter is 0 or 1, and 0 when no block is open.
C28_AnalyzerInvariant ==
    /\ in_error_block <=> buffer # <<>>
    /\ buffer # <<>> => ERROR_START_PATTERNS(buffer[1])
    /\ blank_line_count \in {0, 1}
    /\ ~in_error_block => blank_line_count = 0

\* The last of MaxOutputCalls calls was analyze_output, made while a block was pending:
\* it dropped lines of that block and found two errors in its text.
C28_Witness ==
    /\ lastOp = "analyze_output"
    /\ nFeeds = MaxOutputCalls
    /\ Len(lastReturn) = 2
    /\ discarded # {}
    /\ buffer = <<>>

\* ------------------------------------------------------------ C29
\* C29: cancel(key) returns true exactly when the latest work submitted under key has
\* not finished, and then asks that work to stop; otherwise it changes nothing. Work
\* asked to stop while it waits for a slot never runs and never takes a slot; work
\* asked to stop while it runs gives its slot back when it stops; the free slots and
\* the units that hold one always add up to max_concurrent.
C29_CancelKeepsSlots ==
    /\ [](semaphore + Cardinality(Executing) = max_concurrent)
    /\ [][\A task_id \in JobIds :
             cancel(task_id) =>
                 LET unfinished == /\ submitted(task_id) # {}
                                   /\ latest(task_id).state \in Unfinished
                 IN  /\ cancel_returns(task_id) <=> unfinished
                     /\ UNCHANGED <<tasks, semaphore>>
                     /\ IF unfinished
                        THEN \E u \in DOMAIN units :
                                /\ units[u] = latest(task_id)
                                /\ units' = [units EXCEPT ![u].must_cancel = TRUE]
                        ELSE UNCHANGED units]_vars
    /\ [][\A u \in DOMAIN units :
             units[u].must_cancel =>
                 /\ units[u].state = "pending" =>
                        /\ units'[u].state \in {"pending", "cancelled"}
                        /\ units'[u].state = "cancelled" => semaphore' = semaphore
                 /\ units[u].state \in Holding =>
                        /\ units'[u].state \in {units[u].state, "cancelled"}
                        /\ units'[u].state = "cancelled" => semaphore' = semaphore + 1]_vars

\* With every slot taken, a unit that was running and a unit that was waiting have
\* both been cancelled and have stopped, and a slot is free again.
C29_Witness ==
    /\ max_concurrent < Len(units)
    /\ \E u, w \in DOMAIN units :
          /\ u <= max_concurrent /\ w > max_concurrent
          /\ units[u].state = "cancelled" /\ units[w].state = "cancelled"
          /\ \A o \in DOMAIN units : o \notin {u, w} => units[o].state = "running"
    /\ semaphore = 1

\* ------------------------------------------------------------ C30
\* C30: a handler of the pipeline that the loop awaits can return whenever it is
\* awaited, with every slot taken too; when it submits a unit, the unit is filed under
\* its key, waiting, no slot is touched and the loop has left the handler; a waiting
\* unit starts to run only by taking a slot that is free.
C30_SubmitNeverWaits ==
    /\ []((loop.pc = "in_handler" /\ Len(units) < MaxUnits) => ENABLED HandlerReturns)
    /\ [][(HandlerReturns /\ get(loop.event, "incident_id") # None
                          /\ Len(units') > Len(units)) =>
             LET u == Len(units) + 1 IN
             /\ DOMAIN units' = 1..u
             /\ \A o \in DOMAIN units : units'[o] = units[o]
             /\ units'[u].state = "pending"
             /\ [task_id |-> units'[u].task_id, unit |-> u] \in tasks'
             /\ semaphore' = semaphore
             /\ loop'.pc = "waiting"]_vars
    /\ [][\A u \in DOMAIN units :
             (units[u].state = "pending" /\ units'[u].state # "pending") =>
                 /\ units'[u].state = "running"
                 /\ ~locked(semaphore)
                 /\ semaphore' = semaphore - 1]_vars

\* The loop has returned from a handler that submitted a unit while every slot was
\* taken: the unit waits, and the loop waits for the next event.
C30_Witness ==
    /\ semaphore = 0
    /\ Cardinality(Executing) = max_concurrent
    /\ loop.pc = "waiting"
    /\ dispatched # <<>>
    /\ Len(units) = max_concurrent + 1
    /\ units[Len(units)].state = "pending"
    /\ units[Len(units)].cause = Len(dispatched)

\* ------------------------------------------------------------ C39
RECURSIVE transitions_closure(_)
\* The statuses that allowed transitions lead to from the statuses of a set, the set
\* included.
transitions_closure(statuses) ==
    LET next == statuses \cup UNION {VALID_TRANSITIONS(s) : s \in statuses}
    IN  IF next = statuses THEN statuses ELSE transitions_closure(next)

\* The statuses reached from a status by one allowed transition or more.
reachable(status) == transitions_closure(VALID_TRANSITIONS(status))

\* C39: no status is allowed to change into itself; every status allows some change;
\* every one of the ten statuses is reached from Open by allowed transitions, and Open
\* from every status; so every incident has, in whatever status it is, a transition
\* that transition_status accepts and a way back to Open.
C39_NoSelfLoopNoDeadEnd ==
    /\ Cardinality(IncidentStatus) = 10
    /\ \A s \in IncidentStatus :
          /\ ~validate_transition(s, s)
          /\ VALID_TRANSITIONS(s) # {}
          /\ VALID_TRANSITIONS(s) \subseteq IncidentStatus
          /\ s \in reachable(OPEN)
          /\ OPEN \in reachable(s)
    /\ \A i \in DOMAIN incidents :
          /\ incidents[i].status \in reachable(OPEN)
          /\ \E t \in IncidentStatus : validate_transition(incidents[i].status, t)
          /\ OPEN \in reachable(incidents[i].status)

\* An incident was taken from Open to Resolved through every stage of the fix, and
\* from Resolved to Open again.
C39_Witness ==
    /\ incidents[1].status = OPEN
    /\ lastTransition.result = "ok"
    /\ \E k \in DOMAIN timeline :
          timeline[k].old_status = RESOLVED /\ timeline[k].new_status = OPEN
    /\ \E k \in DOMAIN timeline :
          timeline[k].old_status = FIX_MERGED /\ timeline[k].new_status = VERIFYING

\* ------------------------------------------------------------ C35
\* C35: process_event on an alert that has an incident adds one to the alert's
\* occurrence_count and changes nothing else of the alert; the new monitor event is the
\* alert's and not the incident's; the incidents table (status and event_count of the
\* linked incident, whatever its status, and the number of incidents), the timeline
\* and the bus are as before.
C35_LinkedAlertOnlyCounts ==
    [][\A r \in Repositories, f \in Fingerprints, s \in EventSeverity :
          LET found == find_existing_alert(r, f)
              id == CHOOSE i \in found : TRUE
          IN  (/\ ProcessEvent(r, f, s, MaxLinkedEvents, 1)
               /\ found # {}
               /\ alerts[id].incident_id # None) =>
                  /\ alerts' = [alerts EXCEPT ![id].occurrence_count = @ + 1]
                  /\ monitor_events' = [monitor_events EXCEPT ![id].unlinked = @ + 1]
                  /\ incidents' = incidents
                  /\ timeline' = timeline
                  /\ queue' = queue
                  /\ published' = published]_vars

\* The alert has counted two events since it was escalated and the incident, Closed
\* by now, still counts one; both events are the alert's alone.
C35_Witness ==
    /\ alerts[1].incident_id = 1
    /\ alerts[1].occurrence_count = 3
    /\ monitor_events[1] = [linked |-> 1, unlinked |-> 2]
    /\ Len(incidents) = 1
    /\ incidents[1].status = CLOSED
    /\ incidents[1].event_count = 1
    /\ Len(published) = 1

\* ------------------------------------------------------------ C40
\* C40: an alert that has an incident keeps that incident through every step; an
\* Escalated alert has an incident; and while no alert endpoint has been called, an
\* alert has an incident exactly when it is Escalated.
C40_LinkIsKept ==
    /\ [](\A a \in DOMAIN alerts :
             /\ alerts[a].status = "escalated" => alerts[a].incident_id # None
             /\ nOps = 0 => (alerts[a].incident_id # None <=> alerts[a].status = "escalated"))
    /\ [][\A a \in DOMAIN alerts :
             alerts[a].incident_id # None =>
                 /\ a \in DOMAIN alerts'
                 /\ alerts'[a].incident_id = alerts[a].incident_id]_vars

\* ------------------------------------------------------------ C37
\* C37: the event that creates an alert gives it its severity and the threshold of
\* that severity; an event for an existing alert, of any severity, leaves both as they
\* are; so an alert of Info severity has an incident only from its tenth occurrence
\* on, and every incident counts the threshold of the alert's first event.
C37_FirstEventFixesThreshold ==
    /\ [](\A a \in DOMAIN alerts :
             /\ alerts[a].escalation_threshold = ESCALATION_RULES(alerts[a].severity)
             /\ alerts[a].incident_id # None <=>
                    alerts[a].occurrence_count >= alerts[a].escalation_threshold
             /\ alerts[a].incident_id # None =>
                    incidents[alerts[a].incident_id].event_count
                        = alerts[a].escalation_threshold
             /\ (alerts[a].severity = "info" /\ alerts[a].incident_id # None) =>
                    alerts[a].occurrence_count >= 10)
    /\ [][\A r \in Repositories, f \in Fingerprints, s \in EventSeverity :
             ProcessEvent(r, f, s, MaxEvents, MaxSeries) =>
                 LET found == find_existing_alert(r, f)
                     id == CHOOSE i \in found : TRUE
                 IN  IF found = {}
                     THEN /\ alerts'[Len(alerts')].severity = EVENT_TO_ALERT_SEVERITY(s)
                          /\ alerts'[Len(alerts')].escalation_threshold
                                = ESCALATION_RULES(EVENT_TO_ALERT_SEVERITY(s))
                     ELSE /\ alerts'[id].severity = alerts[id].severity
                          /\ alerts'[id].escalation_threshold
                                = alerts[id].escalation_threshold]_vars

\* An alert of Info severity was escalated by its tenth event, while an alert of
\* another severity has an incident already.
C37_Witness ==
    \E a, b \in DOMAIN alerts :
        /\ alerts[a].severity = "info"
        /\ alerts[a].occurrence_count = 10
        /\ alerts[a].incident_id # None
        /\ incidents[alerts[a].incident_id].event_count = 10
        /\ alerts[b].severity = "critical"
        /\ alerts[b].incident_id # None

\* ------------------------------------------------------------ C36
\* An alert, with the event under way counted, that the event escalates: not
\* Suppressed, no suppressed_until ahead, auto_escalate on, the threshold reached, no
\* incident.
due(alert) ==
    /\ alert.status # "suppressed"
    /\ alert.suppressed_until = None \/ alert.suppressed_until <= now
    /\ alert.auto_escalate
    /\ alert.occurrence_count >= alert.escalation_threshold
    /\ alert.incident_id = None

\* C36: an incident appears, and an alert gets its link, only in a step of
\* process_event; the event that process_event counts for an alert escalates the alert
\* exactly when the alert is then due, Acknowledged or not, and the incident counts the
\* occurrences so far; a step of an alert endpoint or of the clock, lifting a block or
\* not, leaves incidents, links and the bus as they are.
C36_EscalatesOnlyOnEvents ==
    /\ [][\A r \in Repositories, f \in Fingerprints, s \in EventSeverity :
             (ProcessEvent(r, f, s, MaxRun, MaxAlerts) /\ lastCall'.result = "returned") =>
                 LET id == lastCall'.alert_id
                     counted == IF id \in DOMAIN alerts THEN update_alert(alerts[id])
                                ELSE create_alert(r, f, s)
                 IN  IF due(counted)
                     THEN /\ Len(incidents') = Len(incidents) + 1
                          /\ alerts'[id].status = "escalated"
                          /\ alerts'[id].incident_id = Len(incidents')
                          /\ incidents'[Len(incidents')].event_count = counted.occurrence_count
                          /\ incidents'[Len(incidents')].event_count
                                >= counted.escalation_threshold
                     ELSE /\ incidents' = incidents
                          /\ alerts'[id] = counted]_vars
    /\ [][nEvents' = nEvents =>
             /\ incidents' = incidents
             /\ queue' = queue
             /\ DOMAIN alerts' = DOMAIN alerts
             /\ \A a \in DOMAIN alerts : alerts'[a].incident_id = alerts[a].incident_id]_vars
    /\ [][lastCall'.result = "raised" => incidents' = incidents]_vars

\* An alert of threshold 3 was blocked while it counted three events; the block was
\* lifted by an endpoint, which created nothing; the fourth event escalated the alert
\* to an incident of four events.
C36_Witness ==
    \E a \in DOMAIN alerts :
        /\ alerts[a].escalation_threshold = 3
        /\ alerts[a].touched
        /\ nOps = 2
        /\ alerts[a].status = "escalated"
        /\ alerts[a].incident_id # None
        /\ incidents[alerts[a].incident_id].event_count = 4

\* ------------------------------------------------------------ C33
\* C33: once stop() was called on a bus whose loop runs, the loop exits in the end,
\* with or without events published afterwards; the loop leaves a dispatch it has begun
\* only after the last handler of the event's kind was called, all of them called in
\* subscription order; and once the loop has exited it dispatches nothing: the events
\* in the queue stay there.
C33_StopEndsLoop ==
    /\ (~running /\ loop.pc # "created") ~> (loop.pc = "stopped")
    /\ [][(loop.pc = "in_handler" /\ loop'.pc # "in_handler") =>
             /\ loop.idx = Len(handlers[loop.event.type])
             /\ Len(dispatched') = Len(dispatched) + 1
             /\ LET of_event == SelectSeq(calls', LAMBDA c : c.event_no = Len(dispatched'))
                IN  [k \in DOMAIN of_event |-> of_event[k].handler]
                        = handlers[loop.event.type]]_vars
    /\ [][loop.pc = "stopped" =>
             /\ loop' = loop
             /\ dispatched' = dispatched
             /\ calls' = calls
             /\ Len(queue') >= Len(queue)
             /\ SubSeq(queue', 1, Len(queue)) = queue]_vars

\* stop() was called and the loop has exited: the one event it took had both handlers
\* of its kind called, and another event published is left in the queue.
C33_Witness ==
    /\ loop.pc = "stopped"
    /\ ~running
    /\ Len(dispatched) = 1
    /\ Len(dispatched[1].subscribed) = 2
    /\ handlers_called(1) = dispatched[1].subscribed
    /\ Len(queue) = 1

\* ------------------------------------------------------------ C34
\* A new analyzer, with no error returned yet.
fresh == [buffer |-> <<>>, in_error_block |-> FALSE, blank_line_count |-> 0,
          errors |-> <<>>]

\* What feeding lines to a new analyzer one at a time and then calling flush returns,
\* call after call, the calls that return None left out.
streamed(lines) ==
    LET a == fed_all(fresh, lines)
    IN  a.errors \o (IF a.buffer # <<>> THEN flush_buffer_returns(a.buffer) ELSE <<>>)

\* C34: analyze_output(text) returns, in order, what feed_line returns for the lines of
\* text fed one at a time to a new analyzer and what flush returns after them,
\* whatever the analyzer was fed before the call: each feed_line call, and the flush,
\* changes the analyzer and returns as the loop of analyze_output has it.
C34_BatchIsStream ==
    /\ [][\A line \in BatchLines :
             feed_line(line) =>
                 LET a == fed_in_loop([buffer |-> buffer, in_error_block |-> in_error_block,
                                       blank_line_count |-> blank_line_count,
                                       errors |-> <<>>], line)
                 IN  /\ buffer' = a.buffer
                     /\ in_error_block' = a.in_error_block
                     /\ blank_line_count' = a.blank_line_count
                     /\ lastReturn' = a.errors]_vars
    /\ [][flush => lastReturn' = (IF buffer # <<>> THEN flush_buffer_returns(buffer)
                                  ELSE <<>>)]_vars
    /\ [][\A text \in BatchTexts :
             analyze_output(text) =>
                 /\ lastReturn' = streamed(text)
                 /\ buffer' = <<>>
                 /\ ~in_error_block'
                 /\ blank_line_count' = 0]_vars

\* analyze_output was called on an analyzer that had a block pending: it returned the
\* block its text closes with an error line and then the block the text ends in, and
\* nothing of the block that was pending.
C34_Witness ==
    /\ lastOp = "analyze_output"
    /\ discarded # {}
    /\ Len(lastReturn) = 2
    /\ lastReturn[1].stacktrace = <<<<TRACEBACK, ERROR_LINE>>>>
    /\ lastReturn[2].stacktrace = <<<<TRACEBACK>>>>

\* ------------------------------------------------------------ C38
\* The units whose key was submitted again after them.
superseded == {u \in DOMAIN units : \E o \in submitted(units[u].task_id) : o > u}

\* What get_status does for a task, by the state of its unit.
status_of(unit) ==
    CASE unit.state \in Unfinished -> Returns("running")
      [] unit.state = "done" -> Returns("completed")
      [] unit.state = "failed" -> Returns("failed")
      [] unit.state = "cancelled" -> Raises("CancelledError")

\* C38: a key is tracked with one task, the latest submitted under it, and get_status
\* and cancel of the key read and reach that task alone; submitting under a tracked
\* key leaves the earlier unit and the slots as they are; from then on no call asks
\* the earlier unit to stop, it goes on to its end by its own steps, and while it runs
\* it holds one of the max_concurrent slots.
C38_LatestSubmissionTracked ==
    /\ [](\A task_id \in JobIds :
             /\ Cardinality({t \in tasks : t.task_id = task_id}) <= 1
             /\ submitted(task_id) # {} =>
                    /\ \E t \in tasks : t.task_id = task_id /\ units[t.unit] = latest(task_id)
                    /\ \A t \in tasks : t.task_id = task_id =>
                           \A o \in submitted(task_id) : o <= t.unit
                    /\ get_status(task_id) = status_of(latest(task_id))
                    /\ cancel_returns(task_id) <=> latest(task_id).state \in Unfinished)
    /\ [](semaphore + Cardinality(Executing) = max_concurrent)
    /\ [][\A task_id \in JobIds :
             (Submit(task_id) /\ submitted(task_id) # {}) =>
                 /\ \A u \in DOMAIN units : units'[u] = units[u]
                 /\ semaphore' = semaphore]_vars
    /\ [][\A u \in superseded :
             /\ units'[u].must_cancel = units[u].must_cancel
             /\ units'[u].task_id = units[u].task_id
             /\ units[u].state = "running" /\ ~units[u].must_cancel =>
                    units'[u].state \in {"running", "done", "failed"}
             /\ \A task_id \in JobIds : cancel(task_id) => units'[u] = units[u]]_vars

\* A key was submitted again while its first unit ran: with the unit of another key
\* the first unit fills the slots, so the second waits; get_status answers for the
\* second, and cancel has asked the second, and not the first, to stop.
C38_Witness ==
    \E task_id \in JobIds :
        /\ Len(units) = 3
        /\ submitted(task_id) = {1, 3}
        /\ units[1].state = "running" /\ ~units[1].must_cancel
        /\ units[2].state = "running"
        /\ units[3].state = "pending" /\ units[3].must_cancel
        /\ semaphore = 0
        /\ get_status(task_id) = Returns("running")

\* ------------------------------------------------------------ C32
\* The status-change entries of the timeline.
status_changes(entries) == SelectSeq(entries, LAMBDA e : e.event_type = "status_change")

\* What the stages write: the status of the incidents there are, the status-change
\* entries, the investigations and the root causes.
stage_data_changes ==
    \/ \E i \in DOMAIN incidents : incidents'[i].status # incidents[i].status
    \/ status_changes(timeline') # status_changes(timeline)
    \/ investigations' # investigations
    \/ root_causes' # root_causes

\* C32: the step in which a stage unit rolls back, after an exception of its stage or
\* of its commit, changes no committed incident, timeline entry, investigation, root
\* cause or alert, and gives the unit's slot back; the unit does nothing after it and
\* no row of it is ever in the database; the committed status, status-change entries,
\* investigations and root causes change only in the step in which a unit commits.
C32_FailedStageLeavesNoChange ==
    /\ [][\A u \in DOMAIN units :
             (units[u].tx # "rolled_back" /\ units'[u].tx = "rolled_back") =>
                 /\ UNCHANGED <<incidents, timeline, investigations, root_causes, alerts>>
                 /\ units'[u].state \in {"done", "failed"}
                 /\ semaphore' = semaphore + 1]_vars
    /\ [][\A u \in DOMAIN units :
             units[u].tx = "rolled_back" => units'[u] = units[u]]_vars
    /\ [](\A u \in DOMAIN units :
             units[u].tx = "rolled_back" =>
                 \A row \in investigations \cup root_causes : row.id # u)
    /\ [][stage_data_changes =>
             \E u \in DOMAIN units : /\ units[u].state = "flushed"
                                     /\ units'[u].tx = "committed"]_vars

\* The fix generator raised after the stage had announced Fix in progress: the unit
\* has rolled back, and the incident stands at Root cause identified, as the
\* root-cause unit committed it, with no entry for Fix in progress on its timeline.
C32_Witness ==
    \E u \in DOMAIN units :
        /\ units[u].kind = "heal"
        /\ units[u].tx = "rolled_back"
        /\ units[u].published # <<>>
        /\ incidents[units[u].incident_id].status = ROOT_CAUSE_IDENTIFIED
        /\ \A k \in DOMAIN timeline : timeline[k].new_status # FIX_IN_PROGRESS

\* ------------------------------------------------------------ C31
\* The pipeline's units of the three stages have all committed.
carried_through ==
    \A kind \in {"investigate", "rca", "heal"} :
        \E u \in DOMAIN units : /\ units[u].kind = kind
                                /\ units[u].origin = "pipeline"
                                /\ units[u].tx = "committed"

\* A stage or a commit raised, or a stage unit was asked to stop.
stage_stopped ==
    \E u \in DOMAIN units : /\ units[u].kind # "work"
                            /\ units[u].tx = "rolled_back" \/ units[u].must_cancel

\* C31: a unit that stops holding a slot, by returning, raising or being cancelled,
\* gives the slot back in that step, so the free slots and the units holding one
\* always add up to the slots the manager was built with, one or more; with the bus
\* running and every unit that can go on going on, a unit that waits for a slot
\* comes to run unless it is asked to stop, and once IncidentCreated is published the
\* investigate, root-cause and generate-fix units all commit unless a stage or a
\* commit raises or a stage unit is asked to stop.
C31_SlotsComeBackAndStagesRun ==
    /\ \A slots \in 1..MaxConcurrent :
          semaphore = slots => [](semaphore + Cardinality(Executing) = slots)
    /\ [][\A u \in DOMAIN units :
             (units[u].state \in Holding /\ units'[u].state \notin Holding) =>
                 /\ units'[u].state \in {"done", "failed", "cancelled"}
                 /\ semaphore' = semaphore + 1]_vars
    /\ \A u \in 1..MaxUnits :
          (u \in DOMAIN units /\ units[u].state = "pending")
              ~> (u \in DOMAIN units /\ (units[u].state = "running" \/ units[u].must_cancel))
    /\ (\E k \in DOMAIN published : published[k].type = INCIDENT_CREATED)
          ~> (carried_through \/ stage_stopped)

\* A task manager of one slot: the three stages of the incident have committed one
\* after the other, a unit of a caller has raised, and the slot is free.
C31_Witness ==
    /\ carried_through
    /\ ~stage_stopped
    /\ \E u \in DOMAIN units : units[u].kind = "work" /\ units[u].state = "failed"
    /\ Executing = {}
    /\ semaphore = 1

====
